---- MODULE Spec2Model ----
(***************************************************************************)
(* The conversational tool-call loop of the voice chat hook (useVoiceChat) *)
(* together with the chat store, the main button of the voice tab and the  *)
(* tool executor.  Every asynchronous invocation of startVoiceChat or      *)
(* processTextInput is an "exchange"; its awaits are the points where     *)
(* other handlers may run.                                                 *)
(***************************************************************************)
EXTENDS Integers, Sequences, FiniteSets, TLC

\* ---------------------------------------------------------------- bounds
\* the iteration ceiling of processWithClaude
maxIterations == 10
\* exchanges started in one run of the model
MaxExchanges == 2
\* tool-use blocks in one model response
MaxToolUses == 2
\* model responses, tool inputs and backend failures that differ from the
\* plain round (one getStops call that succeeds) in one run of the model
MaxDeviations == 2
\* model calls issued while another exchange is in flight
MaxConcurrentCalls == 1
\* presses of the Reset Conversation button in one run of the model
MaxResets == 1
\* model calls issued in a run of the model in which the reset button is pressed
MaxCallsWithReset == 3
\* exchanges started in a run of the model made of brief exchanges
MaxBriefExchanges == 3
\* model calls issued in a run of the model made of brief exchanges
MaxCallsBrief == 3
\* workers created by useGtfsWorker in one run of the model
MaxWorkers == 3

\* ------------------------------------------------------- content and turns
NullApi == "null"
GtfsApi == "api"

Digits == {"0", "1", "2", "3", "4", "5", "6", "7", "8", "9"}

\* strings whose format the backend checks are sequences of characters
ValidDate == <<"2", "0", "2", "5", "1", "2", "0", "3">>
DashedDate == <<"2", "0", "2", "5", "-", "1", "2", "-", "0", "3">>

TextBlock == [type |-> "text", text |-> "answer"]

ToolUseBlock(id, call) ==
    [type |-> "tool_use", id |-> id, name |-> call.name, input |-> call.input]

\* the (name, input) pairs the model service may request
PlainCall == [name |-> "getStops", input |-> [name |-> "gare"]]

ToolCalls ==
    { PlainCall,
      [name |-> "getCurrentDateTime", input |-> [none |-> TRUE]],
      [name |-> "findItineraryByName", input |-> [date |-> ValidDate]],
      [name |-> "findItineraryByName", input |-> [date |-> DashedDate]],
      [name |-> "getWeather", input |-> [city |-> "x"]] }

\* MessageParam with a plain string content
TextTurn(role, text) == [role |-> role, content |-> [kind |-> "text", text |-> text]]

\* MessageParam with an array of blocks as content
BlockTurn(role, blocks) ==
    [role |-> role, content |-> [kind |-> "blocks", blocks |-> blocks]]

ToolResultBlockUncorrelated(id, result) ==
    [type |-> "tool_result", tool_use_id |-> <<0, 0, 0>>, content |-> result]

\* the tool_result block pushed for a tool-use block
ToolResultBlock(id, result) ==
    [type |-> "tool_result", tool_use_id |-> id, content |-> result]

\* extractToolUseFromContent: the tool_use blocks, in order
extractToolUseFromContent(content) ==
    SelectSeq(content, LAMBDA b : b.type = "tool_use")

RECURSIVE JoinTexts(_)
JoinTexts(blocks) ==
    IF blocks = <<>> THEN <<>>
    ELSE IF Len(blocks) = 1 THEN <<Head(blocks).text>>
    ELSE <<Head(blocks).text, "\n">> \o JoinTexts(Tail(blocks))

\* extractTextFromContent: the texts of the text blocks joined by newlines;
\* a text is the sequence of its fragments, the empty sequence the empty string
extractTextFromContent(content) ==
    JoinTexts(SelectSeq(content, LAMBDA b : b.type = "text"))

\* ---------------------------------------------------------- tool executor
\* JSON.stringify of a value: the text is kept as the value it encodes
JsonText(value) == [json |-> value]

\* an error payload; a message text is the sequence of its fragments
ErrorPayload(message) == [error |-> message]

BackendTools ==
    {"getStops", "getRoutes", "getTrips", "getStopTimes", "searchStopsByWords",
     "findItinerary", "findItineraryByName"}

BackendBehaviours == {"returns", "throws"}

\* /^\d{8}$/.test(date)
DateFormatOk(date) ==
    /\ Len(date) = 8
    /\ \A i \in 1..Len(date) : date[i] \in Digits

\* what the worker's method returns for a call that does not throw
BackendResult(toolName, input) ==
    IF toolName = "findItineraryByName" /\ ~DateFormatOk(input.date)
    THEN [status |-> "error", errorType |-> "INVALID_DATE_TIME",
          message |-> "Invalid date format"]
    ELSE [rows |-> toolName]

\* the outcome of a block of code: a value, or an exception
Returned(value) == [thrown |-> FALSE, value |-> value]
Thrown(message) == [thrown |-> TRUE, message |-> message]

BackendFailure == "backend failure"

\* the try block of executeTool
executeToolTry(api, toolName, input, backend) ==
    IF toolName = "getCurrentDateTime"
    THEN Returned(JsonText([dateTime |-> "now"]))
    ELSE IF api = NullApi
    THEN Returned(JsonText(ErrorPayload(<<"GTFS not initialized">>)))
    ELSE IF toolName \in BackendTools
    THEN IF backend = "throws"
         THEN Thrown(BackendFailure)
         ELSE Returned(JsonText(BackendResult(toolName, input)))
    ELSE Returned(JsonText(ErrorPayload(<<"Unknown tool: ", toolName>>)))

executeToolNoCatch(api, toolName, input, backend) ==
    executeToolTry(api, toolName, input, backend)

\* executeTool with a catch block that returns the message as it is, not
\* its JSON text
executeToolPlainError(api, toolName, input, backend) ==
    LET attempt == executeToolTry(api, toolName, input, backend)
    IN IF attempt.thrown
       THEN Returned([plain |-> attempt.message])
       ELSE attempt

\* executeTool: the try block, and the catch block that turns an exception
\* into an error payload
executeTool(api, toolName, input, backend) ==
    LET attempt == executeToolTry(api, toolName, input, backend)
    IN IF attempt.thrown
       THEN Returned(JsonText(ErrorPayload(<<attempt.message>>)))
       ELSE attempt

\* ------------------------------------------------------------------ state
VARIABLES
    messages,       \* chat store: the conversation history
    isProcessing,   \* chat store: processing flag
    lastResponse,   \* chat store: last final answer
    state,          \* VoiceChatState of the hook
    errorMessage,   \* error message of the hook
    waitingFor,     \* toolStatus.waitingFor
    apiKey,         \* settings store: API key
    gtfsApi,        \* handle of the backend worker given to the hook
    gtfsLoadingState, \* loading state of the backend worker
    ex,             \* the exchanges: invocations of startVoiceChat/processTextInput
    timers,         \* auto-recover timers: the state each closure captured
    modelCalls,     \* model calls issued so far
    concurrentCalls, \* model calls issued while another exchange was in flight
    deviations,     \* deviations from the plain round taken so far
    resets,         \* presses of the reset button so far
    limits,         \* what this run of the model may explore
    feed,           \* the transit data and timetable the worker answers from
    lastCall,       \* the last call made to the worker, with its outcome
    tokenStats,     \* token totals of the hook
    loadingState,   \* useGtfsWorker: loading state of the transit data
    error,          \* useGtfsWorker: message of the last loading failure
    progress,       \* useGtfsWorker: last progress reported
    workerRef,      \* useGtfsWorker: the worker held in workerRef.current
    apiRef,         \* useGtfsWorker: the wrapped worker held in apiRef.current
    workers,        \* the workers created so far
    gtfsUrl,        \* settings store: URL of the transit feed
    renderedUrl     \* the feed URL of the last render committed

\* the state of useGtfsWorker and what it depends on
loaderVars == <<loadingState, error, progress, workerRef, apiRef, workers,
                gtfsUrl, renderedUrl>>

vars == <<messages, isProcessing, lastResponse, state, errorMessage, waitingFor,
          apiKey, gtfsApi, gtfsLoadingState, ex, timers, modelCalls,
          concurrentCalls, deviations, resets, limits, feed, lastCall, tokenStats,
          loaderVars>>

Exchanges == 1..MaxBriefExchanges

VoiceChatStates == {"idle", "listening", "processing", "speaking", "error"}

NoExchange ==
    [pc |-> "unused", capturedState |-> "idle", gtfsApi |-> NullApi,
     capturedMessages |-> <<>>, currentMessages |-> <<>>, iterations |-> 0,
     toolUses |-> <<>>, toolResults |-> <<>>, pending |-> {}, sent |-> <<>>,
     prevSent |-> <<>>, appended |-> <<>>, dispatched |-> <<>>,
     failed |-> {}, abandoned |-> FALSE, finalSeen |-> FALSE, error |-> "none",
     logged |-> <<>>, usages |-> <<>>]

\* a run explores one exchange against every model and backend behaviour,
\* or several exchanges of plain rounds with their timers, or several short
\* exchanges of plain rounds with presses of the reset button, or a longer
\* succession of brief exchanges of plain rounds with their timers
Scenarios ==
    { [exchanges |-> 1, deviations |-> MaxDeviations, resets |-> 0,
       calls |-> maxIterations + 1],
      [exchanges |-> MaxExchanges, deviations |-> 0, resets |-> 0,
       calls |-> maxIterations * MaxExchanges],
      [exchanges |-> MaxExchanges, deviations |-> 0, resets |-> MaxResets,
       calls |-> MaxCallsWithReset],
      [exchanges |-> MaxBriefExchanges, deviations |-> 0, resets |-> 0,
       calls |-> MaxCallsBrief] }

\* no trips and no service calendar
NoTimetable == [trips |-> <<>>, calendar |-> {}, calendarDates |-> {}]

\* no transit data, and no call made to the worker
NoFeed == [byName |-> <<>>, paths |-> <<>>, legCount |-> 0, strayStop |-> FALSE,
           names |-> {}, timetable |-> NoTimetable]

NoCall == [op |-> "none"]

\* workerRef.current and apiRef.current when they hold null
NoWorker == 0

WorkerIds == 1..MaxWorkers

\* a worker not created yet
NotCreated == [status |-> "none", terminated |-> FALSE, url |-> "none"]

\* the feed URLs the settings may hold
DefaultUrl == "https://pysae.com"
OtherUrl == "https://example.org"

\* useGtfsWorker before its first effect has run
LoaderIdle ==
    /\ loadingState = "idle"
    /\ error = "none"
    /\ progress = "none"
    /\ workerRef = NoWorker
    /\ apiRef = NoWorker
    /\ workers = [w \in WorkerIds |-> NotCreated]
    /\ gtfsUrl = DefaultUrl
    /\ renderedUrl = DefaultUrl

\* the token totals of a hook that has received no response
NoTokens == [totalInputTokens |-> 0, totalOutputTokens |-> 0]

\* response.usage: the tokens counted by the model service for a request and
\* its response, here one per message sent and one per block received
Usage(sent, content) == [inputTokens |-> Len(sent), outputTokens |-> Len(content)]

AccumulateInputTokensOnly(prev, usage) ==
    [totalInputTokens |-> prev.totalInputTokens + usage.inputTokens,
     totalOutputTokens |-> prev.totalOutputTokens]

\* the updater given to setTokenStats
AccumulateTokens(prev, usage) ==
    [totalInputTokens |-> prev.totalInputTokens + usage.inputTokens,
     totalOutputTokens |-> prev.totalOutputTokens + usage.outputTokens]

Init ==
    /\ messages = <<>>
    /\ isProcessing = FALSE
    /\ lastResponse = <<>>
    /\ state = "idle"
    /\ errorMessage = "none"
    /\ waitingFor = "idle"
    /\ apiKey \in {"", "sk-key"}
    /\ \E worker \in {<<"loading", NullApi>>, <<"loading", GtfsApi>>,
                        <<"ready", GtfsApi>>} :
           /\ gtfsLoadingState = worker[1]
           /\ gtfsApi = worker[2]
    /\ ex = [e \in Exchanges |-> NoExchange]
    /\ timers = [e \in Exchanges |-> "none"]
    /\ modelCalls = 0
    /\ concurrentCalls = 0
    /\ deviations = 0
    /\ resets = 0
    /\ limits \in Scenarios
    /\ feed = NoFeed
    /\ lastCall = NoCall
    /\ tokenStats = NoTokens
    /\ LoaderIdle

\* ------------------------------------------------------- helper operators
addMessageReplacing(msgs, message) == <<message>>

\* chat store addMessage
addMessage(msgs, message) == Append(msgs, message)

InFlightPcs == {"listening", "awaitModel", "awaitTool", "speaking"}

InFlight(e) == ex[e].pc \in InFlightPcs

OthersInFlight(e) == \E f \in Exchanges \ {e} : InFlight(f)

\* the slot of the next invocation
Unused == {e \in 1..limits.exchanges : ex[e].pc = "unused"}

NextSlot == CHOOSE e \in Unused : \A f \in Unused : e <= f

\* the id the model service gives the k-th tool-use block of a response
ToolUseId(e, iteration, k) == <<e, iteration, k>>

ModelCall(msgs) == [kind |-> "model", messages |-> msgs]

ToolCall(toolUse) ==
    [kind |-> "tool", id |-> toolUse.id, name |-> toolUse.name,
     input |-> toolUse.input]

ToolsToStartAll(toolUses, k) == k..Len(toolUses)

\* the tool-use blocks whose execution is started when the for-of loop of
\* processWithClaude stands at block k: the loop awaits each executeTool
ToolsToStart(toolUses, k) == {k}

\* an addLog call: the type and the data of the entry
LogEntry(type, data) == [type |-> type, data |-> data]

\* JSON.parse of a text: the value it encodes, or a SyntaxError
JSONparse(text) ==
    IF "json" \in DOMAIN text
    THEN Returned(text.json)
    ELSE Thrown("Unexpected token")

\* the loop head of processWithClaude taken with iterations < maxIterations:
\* iterations++ and sendMessage(apiKey, currentMessages, systemPrompt)
EnterRound(x) ==
    [x EXCEPT !.pc = "awaitModel",
              !.iterations = x.iterations + 1,
              !.toolUses = <<>>,
              !.toolResults = <<>>,
              !.dispatched = <<>>,
              !.pending = {ModelCall(x.currentMessages)},
              !.prevSent = x.sent,
              !.sent = x.currentMessages,
              !.logged = Append(x.logged,
                             LogEntry("system",
                                 [iteration |-> x.iterations + 1,
                                  messageCount |-> Len(x.currentMessages)]))]

\* the for-of loop standing at block k: setToolStatus and executeTool
StartTools(x, k) ==
    [x EXCEPT !.pc = "awaitTool",
              !.pending = {ToolCall(x.toolUses[i]) : i \in ToolsToStart(x.toolUses, k)},
              !.dispatched = x.dispatched \o
                  [j \in 1..Cardinality(ToolsToStart(x.toolUses, k)) |->
                      x.toolUses[k + j - 1].id],
              !.logged = x.logged \o
                  [j \in 1..Cardinality(ToolsToStart(x.toolUses, k)) |->
                      LogEntry("tool_call",
                          [id |-> x.toolUses[k + j - 1].id,
                           name |-> x.toolUses[k + j - 1].name,
                           input |-> x.toolUses[k + j - 1].input])]]

\* the exchange's promise settles
Settle(x, err) ==
    [x EXCEPT !.pc = "done", !.pending = {}, !.error = err,
              !.capturedMessages = <<>>, !.currentMessages = <<>>,
              !.toolUses = <<>>, !.toolResults = <<>>, !.sent = <<>>,
              !.prevSent = <<>>, !.dispatched = <<>>]

\* the model service may be called: bounds the calls made by overlapping exchanges
MayCall(e) ==
    /\ modelCalls < limits.calls
    /\ OthersInFlight(e) => concurrentCalls < MaxConcurrentCalls

CountCall(e) ==
    /\ modelCalls' = modelCalls + 1
    /\ concurrentCalls' =
           IF OthersInFlight(e) THEN concurrentCalls + 1 ELSE concurrentCalls

CatchLeavesProcessing(e, x, message) ==
    /\ errorMessage' = message
    /\ state' = "error"
    /\ isProcessing' = isProcessing
    /\ waitingFor' = "idle"
    /\ timers' = [timers EXCEPT ![e] = x.capturedState]
    /\ ex' = [ex EXCEPT ![e] =
                 Settle([x EXCEPT !.logged =
                             Append(x.logged,
                                    LogEntry("error", [message |-> message]))],
                        message)]

\* the catch block of startVoiceChat and processTextInput
Catch(e, x, message) ==
    /\ errorMessage' = message
    /\ state' = "error"
    /\ isProcessing' = FALSE
    /\ waitingFor' = "idle"
    /\ timers' = [timers EXCEPT ![e] = x.capturedState]
    /\ ex' = [ex EXCEPT ![e] =
                 Settle([x EXCEPT !.logged =
                             Append(x.logged,
                                    LogEntry("error", [message |-> message]))],
                        message)]

TooManyIterations == "Too many tool call iterations"

LoopContinuesOnceMore(iterations) == iterations <= maxIterations

\* the condition of the while loop of processWithClaude
LoopContinues(iterations) == iterations < maxIterations

\* the test after the while loop of processWithClaude
CeilingReached(iterations) == iterations >= maxIterations

\* why the execution of a tool-use block failed, if it did
FailureCause(api, toolUse, backend) ==
    IF toolUse.name = "getCurrentDateTime" THEN "none"
    ELSE IF api = NullApi THEN "null handle"
    ELSE IF toolUse.name \notin BackendTools THEN "none"
    ELSE IF backend = "throws" THEN "throws"
    ELSE IF toolUse.name = "findItineraryByName" /\ ~DateFormatOk(toolUse.input.date)
    THEN "invalid arguments"
    ELSE "none"

startVoiceChatUnchecked ==
    /\ Unused # {}
    /\ errorMessage' = "none"
    /\ state' = "listening"
    /\ waitingFor' = "listening"
    /\ ex' = [ex EXCEPT ![NextSlot] =
                 [NoExchange EXCEPT !.pc = "listening",
                                    !.capturedState = state,
                                    !.gtfsApi = gtfsApi,
                                    !.capturedMessages = messages]]
    /\ UNCHANGED <<messages, isProcessing, lastResponse, timers,
                   modelCalls, concurrentCalls, deviations>>

\* ---------------------------------------------------------------- actions
\* startVoiceChat up to its first await (startSpeechRecognition)
startVoiceChat ==
    IF apiKey = ""
    THEN /\ errorMessage' = "Please set your Claude API key in Settings"
         /\ state' = "error"
         /\ UNCHANGED <<messages, isProcessing, lastResponse, waitingFor, ex,
                        timers, modelCalls, concurrentCalls, deviations>>
    ELSE IF gtfsApi = NullApi
    THEN /\ errorMessage' = "GTFS data is not loaded yet"
         /\ state' = "error"
         /\ UNCHANGED <<messages, isProcessing, lastResponse, waitingFor, ex,
                        timers, modelCalls, concurrentCalls, deviations>>
    ELSE /\ Unused # {}
         /\ errorMessage' = "none"
         /\ state' = "listening"
         /\ waitingFor' = "listening"
         /\ ex' = [ex EXCEPT ![NextSlot] =
                      [NoExchange EXCEPT !.pc = "listening",
                                         !.capturedState = state,
                                         !.gtfsApi = gtfsApi,
                                         !.capturedMessages = messages]]
         /\ UNCHANGED <<messages, isProcessing, lastResponse, timers,
                        modelCalls, concurrentCalls, deviations>>

\* stopChat; an exchange still in flight is abandoned by it
stopChat ==
    /\ state' = "idle"
    /\ isProcessing' = FALSE
    /\ waitingFor' = "idle"
    /\ ex' = [e \in Exchanges |->
                 IF InFlight(e) THEN [ex[e] EXCEPT !.abandoned = TRUE] ELSE ex[e]]
    /\ UNCHANGED <<messages, lastResponse, errorMessage, timers,
                   modelCalls, concurrentCalls, deviations>>

isButtonDisabled ==
    \/ gtfsLoadingState # "ready"
    \/ state = "listening"
    \/ state = "processing"

\* the main button of the voice tab
handleMainButton ==
    /\ ~isButtonDisabled
    /\ \/ /\ state = "speaking"
          /\ stopChat
       \/ /\ state \in {"idle", "error"}
          /\ startVoiceChat
    /\ UNCHANGED <<apiKey, gtfsApi, gtfsLoadingState, resets, limits, feed, lastCall, tokenStats, loaderVars>>

\* the Reset Conversation button
resetConversation ==
    /\ resets < limits.resets
    /\ resets' = resets + 1
    /\ messages' = <<>>
    /\ isProcessing' = FALSE
    /\ lastResponse' = <<>>
    /\ state' = "idle"
    /\ errorMessage' = "none"
    /\ waitingFor' = "idle"
    /\ tokenStats' = NoTokens
    /\ ex' = [e \in Exchanges |->
                 IF InFlight(e) THEN [ex[e] EXCEPT !.abandoned = TRUE] ELSE ex[e]]
    /\ UNCHANGED <<apiKey, gtfsApi, gtfsLoadingState, timers, modelCalls, concurrentCalls,
                   deviations, limits, feed, lastCall, loaderVars>>

BeginExchangeFresh(x, userMessage) ==
    EnterRound([x EXCEPT !.currentMessages = <<userMessage>>,
                         !.appended = <<userMessage>>,
                         !.logged = <<LogEntry("user_input",
                                          [transcript |-> userMessage.content.text])>>])

\* processWithClaude from its entry to the first sendMessage
BeginExchange(x, userMessage) ==
    EnterRound([x EXCEPT !.currentMessages = Append(x.capturedMessages, userMessage),
                         !.appended = <<userMessage>>,
                         !.logged = <<LogEntry("user_input",
                                          [transcript |-> userMessage.content.text])>>])

\* what the speech recognizer heard
Transcript == <<"h", "i">>

\* startSpeechRecognition resolves with a transcript
SpeechRecognized(e) ==
    LET x == ex[e]
        userMessage == TextTurn("user", Transcript)
    IN /\ x.pc = "listening"
       /\ MayCall(e)
       /\ CountCall(e)
       /\ messages' = addMessage(messages, userMessage)
       /\ state' = "processing"
       /\ isProcessing' = TRUE
       /\ waitingFor' = "claude"
       /\ ex' = [ex EXCEPT ![e] = BeginExchange(x, userMessage)]
       /\ UNCHANGED <<lastResponse, errorMessage, apiKey, gtfsApi,
                      gtfsLoadingState, resets, limits, feed, lastCall, tokenStats, loaderVars, timers, deviations>>

\* startSpeechRecognition rejects (recognition error, no speech detected)
SpeechFails(e) ==
    /\ ex[e].pc = "listening"
    /\ Catch(e, ex[e], "Speech recognition error")
    /\ UNCHANGED <<messages, lastResponse, apiKey, gtfsApi, gtfsLoadingState, resets, limits, feed, lastCall, tokenStats, loaderVars,
                   modelCalls, concurrentCalls, deviations>>

\* text.trim() of processTextInput
RECURSIVE TrimLeft(_)
TrimLeft(text) ==
    IF text # <<>> /\ Head(text) = " " THEN TrimLeft(Tail(text)) ELSE text

RECURSIVE TrimRight(_)
TrimRight(text) ==
    IF text # <<>> /\ text[Len(text)] = " "
    THEN TrimRight(SubSeq(text, 1, Len(text) - 1))
    ELSE text

Trim(text) == TrimRight(TrimLeft(text))

TextInputs == {<<" ">>, <<"h", "i">>}

\* the text form submits only when no request is being heard or processed
TextInputEnabled == state \notin {"listening", "processing"}

\* processTextInput up to its first await (sendMessage)
processTextInput(text) ==
    IF apiKey = ""
    THEN /\ errorMessage' = "Please set your Claude API key in Settings"
         /\ state' = "error"
         /\ UNCHANGED <<messages, isProcessing, lastResponse, waitingFor, ex,
                        timers, modelCalls, concurrentCalls, deviations>>
    ELSE IF gtfsApi = NullApi
    THEN /\ errorMessage' = "GTFS data is not loaded yet"
         /\ state' = "error"
         /\ UNCHANGED <<messages, isProcessing, lastResponse, waitingFor, ex,
                        timers, modelCalls, concurrentCalls, deviations>>
    ELSE IF Trim(text) = <<>>
    THEN UNCHANGED <<messages, isProcessing, lastResponse, state, errorMessage,
                     waitingFor, ex, timers, modelCalls, concurrentCalls, deviations>>
    ELSE LET userMessage == TextTurn("user", text)
             x == [NoExchange EXCEPT !.capturedState = state,
                                     !.gtfsApi = gtfsApi,
                                     !.capturedMessages = messages]
         IN /\ Unused # {}
            /\ MayCall(NextSlot)
            /\ CountCall(NextSlot)
            /\ errorMessage' = "none"
            /\ state' = "processing"
            /\ waitingFor' = "claude"
            /\ messages' = addMessage(messages, userMessage)
            /\ isProcessing' = TRUE
            /\ ex' = [ex EXCEPT ![NextSlot] = BeginExchange(x, userMessage)]
            /\ UNCHANGED <<lastResponse, timers, deviations>>

SubmitText ==
    /\ TextInputEnabled
    /\ \E text \in TextInputs : processTextInput(text)
    /\ UNCHANGED <<apiKey, gtfsApi, gtfsLoadingState, resets, limits, feed, lastCall, tokenStats, loaderVars>>

\* the sequences of tool calls a model response may request
CallSeqs == UNION {[1..n -> ToolCalls] : n \in 0..MaxToolUses}

ResponseContent(e, iteration, withText, calls) ==
    (IF withText THEN <<TextBlock>> ELSE <<>>) \o
    [k \in 1..Len(calls) |-> ToolUseBlock(ToolUseId(e, iteration, k), calls[k])]

\* how far a response is from the plain round
ResponseCost(withText, calls) ==
    (IF Len(calls) > 1 THEN Len(calls) - 1 ELSE 0)
    + Cardinality({k \in 1..Len(calls) : calls[k] # PlainCall})
    + (IF withText /\ Len(calls) > 0 THEN 1 ELSE 0)

\* sendMessage resolves: the rest of the round up to the next await
ModelResponds(e) ==
    LET x == ex[e] IN
    /\ x.pc = "awaitModel"
    /\ \E withText \in BOOLEAN, calls \in CallSeqs :
        LET content == ResponseContent(e, x.iterations, withText, calls)
            cost == ResponseCost(withText, calls)
            toolUses == extractToolUseFromContent(content)
            assistant == BlockTurn("assistant", content)
            usage == Usage(x.sent, content)
            logged == Append(x.logged,
                             LogEntry("assistant_response",
                                 [content |-> content, usage |-> usage]))
            usages == Append(x.usages, [usage |-> usage, resets |-> resets])
        IN
        /\ deviations + cost <= limits.deviations
        /\ deviations' = deviations + cost
        /\ messages' = addMessage(messages, assistant)
        /\ tokenStats' = AccumulateTokens(tokenStats, usage)
        /\ IF Len(toolUses) = 0
           THEN LET finalResponse == extractTextFromContent(content)
                    y == [x EXCEPT !.appended = Append(x.appended, assistant),
                                   !.finalSeen = TRUE,
                                   !.pending = {},
                                   !.logged = logged,
                                   !.usages = usages]
                IN IF CeilingReached(y.iterations)
                   THEN /\ Catch(e, y, TooManyIterations)
                        /\ UNCHANGED lastResponse
                   ELSE /\ lastResponse' = finalResponse
                        /\ isProcessing' = FALSE
                        /\ IF finalResponse # <<>>
                           THEN /\ state' = "speaking"
                                /\ waitingFor' = "speaking"
                                /\ ex' = [ex EXCEPT ![e] = [y EXCEPT !.pc = "speaking"]]
                           ELSE /\ state' = "idle"
                                /\ waitingFor' = "idle"
                                /\ ex' = [ex EXCEPT ![e] = Settle(y, "none")]
                        /\ UNCHANGED <<errorMessage, timers>>
           ELSE LET y == [x EXCEPT !.appended = Append(x.appended, assistant),
                                   !.currentMessages = Append(x.currentMessages, assistant),
                                   !.toolUses = toolUses,
                                   !.toolResults = <<>>,
                                   !.logged = logged,
                                   !.usages = usages]
                IN /\ waitingFor' = "tool"
                   /\ ex' = [ex EXCEPT ![e] = StartTools(y, 1)]
                   /\ UNCHANGED <<isProcessing, lastResponse, state, errorMessage,
                                  timers>>
    /\ UNCHANGED <<apiKey, gtfsApi, gtfsLoadingState, resets, limits, feed, lastCall, loaderVars, modelCalls, concurrentCalls>>

\* sendMessage rejects (network or service error)
ModelFails(e) ==
    /\ ex[e].pc = "awaitModel"
    /\ Catch(e, ex[e], "model service error")
    /\ UNCHANGED <<messages, lastResponse, apiKey, gtfsApi, gtfsLoadingState, resets, limits, feed, lastCall, tokenStats, loaderVars,
                   modelCalls, concurrentCalls, deviations>>

\* executeTool settles for the block the for-of loop stands at: the rest of
\* the loop body, and after the last block the rest of the round
ToolCompletes(e) ==
    LET x == ex[e]
        k == Len(x.toolResults) + 1
    IN
    /\ x.pc = "awaitTool"
    /\ k <= Len(x.toolUses)
    /\ ToolCall(x.toolUses[k]) \in x.pending
    /\ \E backend \in BackendBehaviours :
        LET toolUse == x.toolUses[k]
            cost == IF backend = "throws" THEN 1 ELSE 0
            result == executeTool(x.gtfsApi, toolUse.name, toolUse.input, backend)
            parsed == JSONparse(result.value)
            cause == FailureCause(x.gtfsApi, toolUse, backend)
            noted == IF cause = "none" THEN x.failed
                     ELSE x.failed \cup
                          {[id |-> toolUse.id, cause |-> cause,
                            round |-> x.iterations, block |-> k]}
        IN
        /\ backend = "throws" => toolUse.name \in BackendTools
        /\ deviations + cost <= limits.deviations
        /\ deviations' = deviations + cost
        /\ IF result.thrown
           THEN \* the exception leaves processWithClaude
                /\ Catch(e, [x EXCEPT !.failed = noted], result.message)
                /\ UNCHANGED <<messages, lastResponse, modelCalls,
                               concurrentCalls>>
           ELSE IF parsed.thrown
           THEN \* the argument of addLog('tool_result') cannot be built
                /\ Catch(e, [x EXCEPT !.failed = noted], parsed.message)
                /\ UNCHANGED <<messages, lastResponse, modelCalls,
                               concurrentCalls>>
           ELSE
           LET results == Append(x.toolResults,
                                 ToolResultBlock(toolUse.id, result.value))
               toolResults == BlockTurn("user", results)
               logged == Append(x.logged,
                                LogEntry("tool_result",
                                    [id |-> toolUse.id, name |-> toolUse.name,
                                     result |-> parsed.value]))
           IN
           IF k < Len(x.toolUses)
           THEN /\ waitingFor' = "tool"
                /\ ex' = [ex EXCEPT ![e] =
                             StartTools([x EXCEPT !.toolResults = results,
                                                  !.failed = noted,
                                                  !.logged = logged], k + 1)]
                /\ UNCHANGED <<messages, isProcessing, lastResponse, state,
                               errorMessage, timers, modelCalls,
                               concurrentCalls>>
           ELSE LET y == [x EXCEPT !.toolResults = results,
                                   !.failed = noted,
                                   !.logged = logged,
                                   !.pending = {},
                                   !.appended = Append(x.appended, toolResults),
                                   !.currentMessages =
                                       Append(x.currentMessages, toolResults)]
                IN /\ messages' = addMessage(messages, toolResults)
                   /\ IF LoopContinues(y.iterations)
                      THEN /\ MayCall(e)
                           /\ CountCall(e)
                           /\ waitingFor' = "claude"
                           /\ ex' = [ex EXCEPT ![e] = EnterRound(y)]
                           /\ UNCHANGED <<isProcessing, lastResponse, state,
                                          errorMessage, timers>>
                      ELSE IF CeilingReached(y.iterations)
                      THEN /\ Catch(e, y, TooManyIterations)
                           /\ UNCHANGED <<lastResponse, modelCalls,
                                          concurrentCalls>>
                      ELSE \* return finalResponse, which is still empty
                           /\ lastResponse' = <<>>
                           /\ isProcessing' = FALSE
                           /\ state' = "idle"
                           /\ waitingFor' = "idle"
                           /\ ex' = [ex EXCEPT ![e] = Settle(y, "none")]
                           /\ UNCHANGED <<errorMessage, timers, modelCalls,
                                          concurrentCalls>>
    /\ UNCHANGED <<apiKey, gtfsApi, gtfsLoadingState, resets, limits, feed, lastCall, tokenStats, loaderVars>>

\* speak resolves: the utterance ended or was cancelled
SpeakEnds(e) ==
    /\ ex[e].pc = "speaking"
    /\ state' = "idle"
    /\ waitingFor' = "idle"
    /\ ex' = [ex EXCEPT ![e] = Settle(ex[e], "none")]
    /\ UNCHANGED <<messages, isProcessing, lastResponse, errorMessage, apiKey,
                   gtfsApi, gtfsLoadingState, resets, limits, feed, lastCall, tokenStats, loaderVars, timers, modelCalls, concurrentCalls, deviations>>

\* speak rejects (no voice, synthesis error)
SpeakFails(e) ==
    /\ ex[e].pc = "speaking"
    /\ Catch(e, ex[e], "Speech synthesis error")
    /\ UNCHANGED <<messages, lastResponse, apiKey, gtfsApi, gtfsLoadingState, resets, limits, feed, lastCall, tokenStats, loaderVars,
                   modelCalls, concurrentCalls, deviations>>

\* the auto-recover timer armed by a catch block fires: its closure tests
\* the state captured when the exchange was started
TimerFires(e) ==
    /\ timers[e] # "none"
    /\ state' = IF timers[e] = "error" THEN "idle" ELSE state
    /\ timers' = [timers EXCEPT ![e] = "none"]
    /\ UNCHANGED <<messages, isProcessing, lastResponse, errorMessage,
                   waitingFor, apiKey, gtfsApi, gtfsLoadingState, resets, limits, feed, lastCall, tokenStats, loaderVars, ex,
                   modelCalls, concurrentCalls, deviations>>

Next ==
    \/ handleMainButton
    \/ SubmitText
    \/ resetConversation
    \/ \E e \in Exchanges : SpeechRecognized(e)
    \/ \E e \in Exchanges : SpeechFails(e)
    \/ \E e \in Exchanges : ModelResponds(e)
    \/ \E e \in Exchanges : ModelFails(e)
    \/ \E e \in Exchanges : ToolCompletes(e)
    \/ \E e \in Exchanges : SpeakEnds(e)
    \/ \E e \in Exchanges : SpeakFails(e)
    \/ \E e \in Exchanges : TimerFires(e)

Spec == Init /\ [][Next]_vars

\* ================================================================ the worker
\* The backend worker: stop resolver, itinerary engine and orchestrator.
\* Texts handled by the worker are sequences of characters.

\* ------------------------------------------------------------------ bounds
\* paths the routing library yields for one pair of stops
MaxPaths == 2
\* journeys the routing library yields for one path
MaxJourneysPerPath == 2
\* legs of one journey
MaxLegs == 2

\* ------------------------------------------------------------------- texts
LowerChar(c) ==
    CASE c = "G" -> "g"
      [] c = "A" -> "a"
      [] c = "E^" -> "e^"
      [] OTHER -> c

\* String.prototype.toLowerCase
toLowerCase(text) == [i \in DOMAIN text |-> LowerChar(text[i])]

\* normalize('NFD') followed by the removal of the combining marks, on one
\* character: "e^" is an accented e
RemoveAccent(c) ==
    CASE c = "e^" -> "e"
      [] c = "E^" -> "E"
      [] OTHER -> c

removeAccents(word) == [i \in DOMAIN word |-> RemoveAccent(word[i])]

\* String.prototype.split(/\s+/): the pieces between the runs of spaces, the
\* empty pieces at both ends included
RECURSIVE splitOnSpaces(_)
splitOnSpaces(text) ==
    IF \A i \in DOMAIN text : text[i] # " "
    THEN <<text>>
    ELSE LET i == CHOOSE k \in DOMAIN text :
                      text[k] = " " /\ \A j \in 1..(k - 1) : text[j] # " "
         IN <<SubSeq(text, 1, i - 1)>>
            \o splitOnSpaces(TrimLeft(SubSeq(text, i, Len(text))))

\* the words of a query in searchStopsByWords
QueryWords(query) ==
    LET pieces == splitOnSpaces(toLowerCase(query))
        kept == SelectSeq(pieces, LAMBDA word : Len(word) >= 2)
    IN [i \in DOMAIN kept |-> removeAccents(kept[i])]

\* the collation keys of a character: letter, accent, case
PrimaryKey(c) ==
    LET letter == RemoveAccent(LowerChar(c))
    IN CASE letter = " " -> 0
         [] letter = "a" -> 1
         [] letter = "b" -> 2
         [] letter = "e" -> 3
         [] letter = "g" -> 4

SecondaryKey(c) == IF RemoveAccent(c) # c THEN 1 ELSE 0

TertiaryKey(c) == IF LowerChar(c) # c THEN 1 ELSE 0

\* the order of two sequences of keys: -1, 0 or 1
RECURSIVE CompareKeys(_, _)
CompareKeys(a, b) ==
    IF a = <<>> /\ b = <<>> THEN 0
    ELSE IF a = <<>> THEN -1
    ELSE IF b = <<>> THEN 1
    ELSE IF Head(a) < Head(b) THEN -1
    ELSE IF Head(a) > Head(b) THEN 1
    ELSE CompareKeys(Tail(a), Tail(b))

\* String.prototype.localeCompare on the characters of the model: letters
\* decide first, then accents, then case
localeCompare(a, b) ==
    LET primary == CompareKeys([i \in DOMAIN a |-> PrimaryKey(a[i])],
                               [i \in DOMAIN b |-> PrimaryKey(b[i])])
        secondary == CompareKeys([i \in DOMAIN a |-> SecondaryKey(a[i])],
                                 [i \in DOMAIN b |-> SecondaryKey(b[i])])
        tertiary == CompareKeys([i \in DOMAIN a |-> TertiaryKey(a[i])],
                                [i \in DOMAIN b |-> TertiaryKey(b[i])])
    IN IF primary # 0 THEN primary
       ELSE IF secondary # 0 THEN secondary
       ELSE tertiary

\* ------------------------------------------------------------------- stops
StopIds == {"s1", "s2", "s3", "s4"}

\* the stops table of the feed
StopName(id) ==
    CASE id = "s1" -> <<"b", " ", "g", "a", " ", "g", "e">>
      [] id = "s2" -> <<"g", "a", " ", "g", "e", " ", "b">>
      [] id = "s3" -> <<"g", "a", " ", "g", "e">>
      [] id = "s4" -> <<"G", "a", " ", "g", "e^", " ">>

Stop(id) == [stop_id |-> id, stop_name |-> StopName(id)]

\* the names given to the tools
QueryGa == <<" ", "G", "a">>
QueryGaGe == <<"g", "a", " ", "G", "e^">>
QueryGaGa == <<"g", "a", " ", "g", "a">>
QueryShort == <<"a">>
Queries == {QueryGa, QueryGaGe, QueryGaGa, QueryShort}

WordGa == <<"g", "a">>
WordGe == <<"g", "e">>

\* what getStops({name: word}) may answer: a list of stops
StopLists == {<<>>, <<"s3", "s4">>, <<"s1", "s2", "s3">>, <<"s1", "s2", "s3", "s4">>}

\* gtfsInstance.getStops({ name: word, limit: 100 })
getStopsByName(fd, word) ==
    IF word \in DOMAIN fd.byName
    THEN [i \in DOMAIN fd.byName[word] |-> Stop(fd.byName[word][i])]
    ELSE <<>>

\* the value of an expression, worked out once
Only(values) == CHOOSE value \in values : TRUE

\* a sequence without its repeated elements, first occurrences kept
Distinct(seq) ==
    LET Firsts == {i \in DOMAIN seq : \A j \in 1..(i - 1) : seq[j] # seq[i]}
    IN [k \in 1..Cardinality(Firsts) |->
           seq[CHOOSE i \in Firsts : Cardinality({j \in Firsts : j < i}) = k - 1]]

RECURSIVE Concat(_)
Concat(seqs) == IF seqs = <<>> THEN <<>> ELSE Head(seqs) \o Concat(Tail(seqs))

\* a comparator that leaves the match score out
CompareCandidatesByName(a, b) == localeCompare(a.stop_name, b.stop_name)

\* the comparator of searchStopsByWords: match score descending, then name
CompareCandidates(a, b) ==
    IF b.matchScore # a.matchScore
    THEN b.matchScore - a.matchScore
    ELSE localeCompare(a.stop_name, b.stop_name)

\* Array.prototype.sort with that comparator: a stable sort, so every
\* candidate comes after the ones that compare lower and after the ones that
\* compare equal and were inserted earlier
SortCandidates(seq) ==
    LET Before(i, j) ==
            \/ CompareCandidates(seq[i], seq[j]) < 0
            \/ CompareCandidates(seq[i], seq[j]) = 0 /\ i < j
        Position(i) == Cardinality({j \in DOMAIN seq : Before(j, i)}) + 1
    IN [k \in DOMAIN seq |-> seq[CHOOSE i \in DOMAIN seq : Position(i) = k]]

\* Array.prototype.slice(0, end)
SliceTo(seq, end) ==
    LET last == IF end < 0
                THEN (IF Len(seq) + end < 0 THEN 0 ELSE Len(seq) + end)
                ELSE (IF end > Len(seq) THEN Len(seq) ELSE end)
    IN SubSeq(seq, 1, last)

\* the entry of stopMap with the score taken as the share of the words of
\* the query that matched
StopWithScoreAsShare(words, found, stop) ==
    LET Hits == {i \in DOMAIN words :
                    \E k \in DOMAIN found[i] : found[i][k] = stop}
    IN [stop_id |-> stop.stop_id,
        stop_name |-> stop.stop_name,
        matchScore |-> Cardinality(Hits) \div Len(words),
        matchedWords |-> <<>>]

\* the entry of stopMap for a stop: one point of score for every word of the
\* query the stop was returned for, and the distinct words among them
StopWithScore(words, found, stop) ==
    LET Hits == {i \in DOMAIN words :
                    \E k \in DOMAIN found[i] : found[i][k] = stop}
    IN [stop_id |-> stop.stop_id,
        stop_name |-> stop.stop_name,
        matchScore |-> Cardinality(Hits),
        matchedWords |-> Distinct(SelectSeq(words,
                            LAMBDA word : \E i \in Hits : words[i] = word))]

\* searchStopsByWords from its loop on: found holds what getStops returned
\* for each word
RankStops(words, found, limit) ==
    Only({Only({SliceTo(SortCandidates(stopMap), limit) :
                   stopMap \in {[k \in DOMAIN inserted |->
                                    StopWithScore(words, found, inserted[k])]}}) :
             inserted \in {Distinct(Concat(found))}})

\* searchStopsByWords(query, limit)
searchStopsByWords(fd, query, limit) ==
    Only({Only({RankStops(words, found, limit) :
                   found \in {[i \in DOMAIN words |->
                                  getStopsByName(fd, words[i])]}}) :
             words \in {QueryWords(query)}})

\* ------------------------------------------------------------------- times
DigitValue(c) ==
    CASE c = "0" -> 0 [] c = "1" -> 1 [] c = "2" -> 2 [] c = "3" -> 3
      [] c = "4" -> 4 [] c = "5" -> 5 [] c = "6" -> 6 [] c = "7" -> 7
      [] c = "8" -> 8 [] c = "9" -> 9

DigitChar(d) ==
    CASE d = 0 -> "0" [] d = 1 -> "1" [] d = 2 -> "2" [] d = 3 -> "3"
      [] d = 4 -> "4" [] d = 5 -> "5" [] d = 6 -> "6" [] d = 7 -> "7"
      [] d = 8 -> "8" [] d = 9 -> "9"

\* String(n) for a natural number
RECURSIVE NumberText(_)
NumberText(n) ==
    IF n < 10 THEN <<DigitChar(n)>>
    ELSE Append(NumberText(n \div 10), DigitChar(n % 10))

\* String(n).padStart(2, '0')
PadStart2(n) == IF n < 10 THEN <<"0">> \o NumberText(n) ELSE NumberText(n)

\* a rendering that wraps the hours at midnight
secondsToTimeStringWrapped(seconds) ==
    LET hours == (seconds \div 3600) % 24
        minutes == (seconds % 3600) \div 60
        secs == seconds % 60
    IN PadStart2(hours) \o <<":">> \o PadStart2(minutes) \o <<":">> \o PadStart2(secs)

\* secondsToTimeString
secondsToTimeString(seconds) ==
    LET hours == seconds \div 3600
        minutes == (seconds % 3600) \div 60
        secs == seconds % 60
    IN PadStart2(hours) \o <<":">> \o PadStart2(minutes) \o <<":">> \o PadStart2(secs)

\* /^\d{2}:\d{2}(:\d{2})?$/.test(departureTime)
TimeFormatOk(time) ==
    /\ Len(time) \in {5, 8}
    /\ \A i \in DOMAIN time :
           IF i \in {3, 6} THEN time[i] = ":" ELSE time[i] \in Digits

\* Number of the two-digit piece that starts at position i
TwoDigits(time, i) == 10 * DigitValue(time[i]) + DigitValue(time[i + 1])

\* departureTime.split(':')
RECURSIVE SplitOnColon(_)
SplitOnColon(text) ==
    IF \A i \in DOMAIN text : text[i] # ":" THEN <<text>>
    ELSE LET colon == CHOOSE i \in DOMAIN text :
                          text[i] = ":" /\ \A j \in 1..(i - 1) : text[j] # ":"
         IN <<SubSeq(text, 1, colon - 1)>> \o
            SplitOnColon(SubSeq(text, colon + 1, Len(text)))

\* Number(text) for a text of digits
RECURSIVE NumberOf(_)
NumberOf(text) ==
    IF text = <<>> THEN 0
    ELSE 10 * NumberOf(SubSeq(text, 1, Len(text) - 1)) + DigitValue(text[Len(text)])

\* findItinerary: departureTime.split(':').map(Number) turned into seconds,
\* for a time made of numbers and colons
DepartureSeconds(time) ==
    LET timeParts == SplitOnColon(time)
    IN NumberOf(timeParts[1]) * 3600 + NumberOf(timeParts[2]) * 60
        + (IF Len(timeParts) >= 3 THEN NumberOf(timeParts[3]) ELSE 0)

\* the departure times given to the tools
TimeShort == <<"0", "8", ":", "1", "5">>
TimeLong == <<"0", "8", ":", "1", "5", ":", "3", "0">>
TimeBad == <<"8", "h", "1", "5">>
Times == {TimeShort, TimeLong, TimeBad}

Dates == {ValidDate, DashedDate}

\* ------------------------------------------------------- itinerary engine
\* options?.field ?? fallback
Option(options, field, fallback) ==
    IF field \in DOMAIN options THEN options[field] ELSE fallback

NoOptions == [field \in {} |-> 0]

\* Array.prototype.slice(start, end) for start, end >= 0
Slice(seq, start, end) ==
    SubSeq(seq, start + 1, IF end > Len(seq) THEN Len(seq) ELSE end)

\* a stop the routing graph knows and the stops table does not
UnlistedStop == "s9"

\* the stops a journey of the routing library calls at, in order
LegStops(strayStop) ==
    IF strayStop THEN <<"s1", UnlistedStop, "s3", "s2">>
    ELSE <<"s1", "s3", "s4", "s2">>

\* a ScheduledLeg of the routing library
ScheduledLeg(k, departure, strayStop) ==
    [startStop |-> LegStops(strayStop)[k],
     endStop |-> LegStops(strayStop)[k + 1],
     tripId |-> "t1",
     routeShortName |-> "7",
     departureTime |-> departure + (k - 1) * 600,
     arrivalTime |-> departure + k * 600 - 60]

\* a ScheduledJourney of the routing library
ScheduledJourney(departure, legCount, strayStop) ==
    [departureTime |-> departure,
     arrivalTime |-> IF legCount = 0 THEN departure ELSE departure + legCount * 600 - 60,
     totalDuration |-> IF legCount = 0 THEN 0 ELSE legCount * 600 - 60,
     legs |-> [k \in 1..legCount |-> ScheduledLeg(k, departure, strayStop)]]

\* what GraphBuilder.findScheduledTrips yields for a path of the feed
PathJourneys(path, legCount, strayStop) ==
    [j \in 1..path.count |->
        ScheduledJourney(path.first + (j - 1) * 3600, legCount, strayStop)]

SortJourneysAsFound(seq) == seq

\* allJourneys.sort((a, b) => a.departureTime - b.departureTime): a stable
\* sort, so every journey comes after the ones that leave earlier and after
\* the ones that leave at the same time and were found earlier
SortJourneys(seq) ==
    LET Before(i, j) ==
            \/ seq[i].departureTime - seq[j].departureTime < 0
            \/ seq[i].departureTime - seq[j].departureTime = 0 /\ i < j
        Position(i) == Cardinality({j \in DOMAIN seq : Before(j, i)}) + 1
    IN [k \in DOMAIN seq |-> seq[CHOOSE i \in DOMAIN seq : Position(i) = k]]

\* a call made to the backend library, or from one worker method to another
BackendCall(fn, args) == [fn |-> fn, args |-> args]

\* findItinerary from its loop on: found holds what findScheduledTrips
\* returned for each path
CollectJourneys(found, journeysCount) ==
    Only({[journeys |-> SliceTo(allJourneys, journeysCount),
           paths |-> SelectSeq([p \in DOMAIN found |-> p],
                               LAMBDA p : Len(found[p]) > 0)] :
             allJourneys \in {SortJourneys(Concat(found))}})

\* findItinerary failing on an empty path list instead of returning
findItineraryFailingWithoutPaths(fd, startStopId, endStopId, date, departureTime, options) ==
    IF Len(fd.paths) = 0
    THEN [value |-> [thrown |-> "no path"], calls |-> <<>>]
    ELSE [value |-> CollectJourneys(
                        [p \in DOMAIN fd.paths |->
                            PathJourneys(fd.paths[p], fd.legCount, fd.strayStop)],
                        Option(options, "journeysCount", 2)),
          calls |-> <<>>]

\* findItinerary(startStopId, endStopId, date, departureTime, options):
\* the value returned and the calls made
findItinerary(fd, startStopId, endStopId, date, departureTime, options) ==
    LET maxPaths == Option(options, "maxPaths", 2)
        maxTransfers == Option(options, "maxTransfers", 3)
        minTransferDuration == Option(options, "minTransferDuration", 300)
        journeysCount == Option(options, "journeysCount", 2)
        paths == fd.paths
        findAllPaths == BackendCall("findAllPaths",
                            <<startStopId, endStopId, maxPaths, maxTransfers>>)
    IN IF Len(paths) = 0
       THEN [value |-> [journeys |-> <<>>, paths |-> <<>>],
             calls |-> <<findAllPaths>>]
       ELSE
       LET departureSeconds == DepartureSeconds(departureTime)
       IN [value |-> Only({CollectJourneys(found, journeysCount) :
                              found \in {[p \in DOMAIN paths |->
                                  PathJourneys(paths[p], fd.legCount, fd.strayStop)]}}),
           calls |-> <<findAllPaths>> \o
                     [p \in DOMAIN paths |->
                         BackendCall("findScheduledTrips",
                             <<p, date, departureSeconds, minTransferDuration,
                               journeysCount>>)]]

\* ------------------------------------------------------------ orchestrator
\* stop_name || ''
NameOrEmpty(stop) == stop.stop_name

\* s.stop_name?.toLowerCase().trim() === name.toLowerCase().trim()
IsExactMatch(stop, name) == Trim(toLowerCase(stop.stop_name)) = Trim(toLowerCase(name))

\* the candidates whose match score is that of the first one
SameScore(stops) ==
    SelectSeq(stops, LAMBDA s : s.matchScore = stops[1].matchScore)

\* the test of steps 8 and 9 of findItineraryByName
IsAmbiguous(stops, name) ==
    /\ Len(SameScore(stops)) >= 3
    /\ ~\E i \in DOMAIN stops : IsExactMatch(stops[i], name)

AmbiguousCandidates(stops) ==
    LET tied == SliceTo(SameScore(stops), 5)
    IN [i \in DOMAIN tied |->
           [stop_id |-> tied[i].stop_id, stop_name |-> NameOrEmpty(tied[i]),
            matchScore |-> tied[i].matchScore]]

ResolvedStop(stop) == [stop_id |-> stop.stop_id, stop_name |-> NameOrEmpty(stop)]

ResolvedStopWithScore(stop) ==
    [stop_id |-> stop.stop_id, stop_name |-> NameOrEmpty(stop),
     matchScore |-> stop.matchScore, matchedWords |-> stop.matchedWords]

\* startStops.length > 1 ? startStops.slice(1, 4).map(...) : undefined
AlternativeStops(stops) ==
    IF Len(stops) > 1
    THEN LET others == Slice(stops, 1, 4)
         IN [i \in DOMAIN others |-> ResolvedStopWithScore(others[i])]
    ELSE <<>>

PossibleReasons ==
    <<"No service running at this time",
      "Stops not connected by transit network",
      "Try a different departure time or date">>

\* gtfsInstance.getStops({ stopId: ids }): the records the stops table holds
getStopsById(ids) == {Stop(id) : id \in ids \cap StopIds}

\* a stop ID used as a text
IdText(id) == <<id>>

\* fromStop?.stop_name || leg.startStop
LegStopName(stopsData, id) ==
    IF \E stop \in stopsData : stop.stop_id = id /\ stop.stop_name # <<>>
    THEN (CHOOSE stop \in stopsData : stop.stop_id = id).stop_name
    ELSE IdText(id)

TripHeadsign(tripId) == "north"

ResolvedLeg(stopsData, leg) ==
    [fromStop |-> [stop_id |-> leg.startStop,
                   stop_name |-> LegStopName(stopsData, leg.startStop)],
     toStop |-> [stop_id |-> leg.endStop,
                 stop_name |-> LegStopName(stopsData, leg.endStop)],
     departureTime |-> secondsToTimeString(leg.departureTime),
     arrivalTime |-> secondsToTimeString(leg.arrivalTime),
     isTransfer |-> FALSE,
     route |-> [route_id |-> "", route_short_name |-> leg.routeShortName],
     tripHeadsign |-> TripHeadsign(leg.tripId)]

TransfersLegsMinusOne(legs) == Len(legs) - 1

\* Math.max(0, resolvedLegs.length - 1)
Transfers(legs) == IF Len(legs) - 1 > 0 THEN Len(legs) - 1 ELSE 0

\* Math.round(totalDuration / 60)
RoundedMinutes(seconds) == (seconds + 30) \div 60

ResolvedJourney(stopsData, journey) ==
    LET resolvedLegs == [k \in DOMAIN journey.legs |->
                            ResolvedLeg(stopsData, journey.legs[k])]
    IN [departureTime |-> secondsToTimeString(journey.departureTime),
        arrivalTime |-> secondsToTimeString(journey.arrivalTime),
        totalDuration |-> RoundedMinutes(journey.totalDuration),
        transfers |-> Transfers(resolvedLegs),
        legs |-> resolvedLegs]

\* date.substring(0, 4)-date.substring(4, 6)-date.substring(6, 8)
FormattedDate(date) ==
    SubSeq(date, 1, 4) \o <<"-">> \o SubSeq(date, 5, 6) \o <<"-">> \o SubSeq(date, 7, 8)

\* departureTime.length === 5 ? `${departureTime}:00` : departureTime
NormalizedTimeAsGiven(departureTime) == departureTime

NormalizedTime(departureTime) ==
    IF Len(departureTime) = 5 THEN departureTime \o <<":", "0", "0">>
    ELSE departureTime

\* step 10 of findItineraryByName: start and end are the same stop
SameStopNever(selectedStart, selectedEnd) == FALSE

SameStop(selectedStart, selectedEnd) == selectedStart.stop_id = selectedEnd.stop_id

\* step 12 of findItineraryByName: the engine found no journey
NoJourneysNever(journeys) == FALSE

NoJourneys(journeys) == Len(journeys) = 0

\* steps 13 to 19 of findItineraryByName: the success result and the lookups
\* made for it
ResolveNames(startStops, endStops, journeys) ==
    LET legs == Concat([j \in DOMAIN journeys |-> journeys[j].legs])
        stopIds == {legs[k].startStop : k \in DOMAIN legs} \cup
                   {legs[k].endStop : k \in DOMAIN legs}
        tripIds == {legs[k].tripId : k \in DOMAIN legs}
    IN [value |->
           Only({[status |-> "success",
                  startStop |-> ResolvedStopWithScore(startStops[1]),
                  endStop |-> ResolvedStopWithScore(endStops[1]),
                  journeys |-> [j \in DOMAIN journeys |->
                                   ResolvedJourney(stopsData, journeys[j])],
                  alternativeStartStops |-> AlternativeStops(startStops),
                  alternativeEndStops |-> AlternativeStops(endStops)] :
                    stopsData \in {getStopsById(stopIds)}}),
        calls |-> <<BackendCall("getStops", <<stopIds>>)>> \o
                  (IF tripIds # {}
                   THEN <<BackendCall("getTrips", <<tripIds>>)>>
                   ELSE <<>>)]

\* steps 12 to 19 of findItineraryByName, for what the engine returned
ReportItinerary(startStops, endStops, date, normalizedTime, journeys) ==
    IF NoJourneys(journeys)
    THEN [value |->
             [status |-> "error", errorType |-> "NO_ITINERARY_FOUND",
              message |-> <<"No transit route found between ",
                            startStops[1].stop_name, endStops[1].stop_name,
                            FormattedDate(date), normalizedTime>>,
              startStop |-> ResolvedStop(startStops[1]),
              endStop |-> ResolvedStop(endStops[1]),
              date |-> date,
              departureTime |-> normalizedTime,
              possibleReasons |-> PossibleReasons],
          calls |-> <<>>]
    ELSE ResolveNames(startStops, endStops, journeys)

\* steps 11 to 19 of findItineraryByName, for the two selected stops
ResolveItinerary(fd, startStops, endStops, date, normalizedTime, options) ==
    LET selectedStart == startStops[1]
        selectedEnd == endStops[1]
        engineOptions == [maxTransfers |-> Option(options, "maxTransfers", 3),
                          journeysCount |-> Option(options, "journeysCount", 3)]
        engineCall == BackendCall("findItinerary",
                          <<selectedStart.stop_id, selectedEnd.stop_id, date,
                            normalizedTime, engineOptions>>)
    IN Only({Only({[value |-> report.value,
                    calls |-> <<engineCall>> \o itineraryResult.calls
                                  \o report.calls] :
                      report \in {ReportItinerary(startStops, endStops, date,
                                      normalizedTime,
                                      itineraryResult.value.journeys)}}) :
                itineraryResult \in {findItinerary(fd, selectedStart.stop_id,
                                         selectedEnd.stop_id, date,
                                         normalizedTime, engineOptions)}})

\* steps 5 to 19 of findItineraryByName, for the two candidate lists
ResolveStops(fd, startName, endName, date, normalizedTime, options, startStops, endStops) ==
    IF Len(startStops) = 0 /\ Len(endStops) = 0
    THEN [value |-> [status |-> "error", errorType |-> "BOTH_STOPS_NOT_FOUND",
                     message |-> <<"No stops found matching ", startName, endName>>,
                     startQuery |-> startName, endQuery |-> endName],
          calls |-> <<>>]
    ELSE IF Len(startStops) = 0
    THEN [value |-> [status |-> "error", errorType |-> "START_STOP_NOT_FOUND",
                     message |-> <<"No stop found matching ", startName>>,
                     searchedQuery |-> startName],
          calls |-> <<>>]
    ELSE IF Len(endStops) = 0
    THEN [value |-> [status |-> "error", errorType |-> "END_STOP_NOT_FOUND",
                     message |-> <<"No stop found matching ", endName>>,
                     searchedQuery |-> endName],
          calls |-> <<>>]
    ELSE IF IsAmbiguous(startStops, startName)
    THEN [value |-> [status |-> "error", errorType |-> "AMBIGUOUS_START_STOP",
                     message |-> <<"Multiple stops match ", startName>>,
                     searchedQuery |-> startName,
                     candidates |-> AmbiguousCandidates(startStops)],
          calls |-> <<>>]
    ELSE IF IsAmbiguous(endStops, endName)
    THEN [value |-> [status |-> "error", errorType |-> "AMBIGUOUS_END_STOP",
                     message |-> <<"Multiple stops match ", endName>>,
                     searchedQuery |-> endName,
                     candidates |-> AmbiguousCandidates(endStops)],
          calls |-> <<>>]
    ELSE IF SameStop(startStops[1], endStops[1])
    THEN [value |-> [status |-> "error", errorType |-> "SAME_START_AND_END",
                     message |-> <<"Start and end stops are the same ",
                                   startStops[1].stop_name>>,
                     stop |-> ResolvedStop(startStops[1])],
          calls |-> <<>>]
    ELSE ResolveItinerary(fd, startStops, endStops, date, normalizedTime, options)

\* findItineraryByName(startName, endName, date, departureTime, options):
\* the value returned and the calls made
findItineraryByName(fd, startName, endName, date, departureTime, options) ==
    IF ~DateFormatOk(date)
    THEN [value |-> [status |-> "error", errorType |-> "INVALID_DATE_TIME",
                     message |-> <<"Invalid date format">>,
                     providedDate |-> date],
          calls |-> <<>>]
    ELSE IF ~TimeFormatOk(departureTime)
    THEN [value |-> [status |-> "error", errorType |-> "INVALID_DATE_TIME",
                     message |-> <<"Invalid time format">>,
                     providedTime |-> departureTime],
          calls |-> <<>>]
    ELSE
    LET searches == <<BackendCall("searchStopsByWords", <<startName, 10>>),
                      BackendCall("searchStopsByWords", <<endName, 10>>)>>
    IN Only({Only({[value |-> rest.value, calls |-> searches \o rest.calls] :
                      rest \in {ResolveStops(fd, startName, endName, date,
                                    NormalizedTime(departureTime), options,
                                    startStops, endStops)}}) :
                startStops \in {searchStopsByWords(fd, startName, 10)},
                endStops \in {searchStopsByWords(fd, endName, 10)}})

\* --------------------------------------------------------------- calendar
\* the trips table holds runs of rows: rows trips of one service in a row
TripRun(serviceId, rows) == [service_id |-> serviceId, rows |-> rows]

\* the first limit rows of a table of runs
RECURSIVE TakeRows(_, _)
TakeRows(runs, limit) ==
    IF runs = <<>> \/ limit <= 0 THEN <<>>
    ELSE IF Head(runs).rows >= limit
    THEN <<TripRun(Head(runs).service_id, limit)>>
    ELSE <<Head(runs)>> \o TakeRows(Tail(runs), limit - Head(runs).rows)

\* gtfsInstance.getTrips(filters): the rows of the services asked for, up to
\* the limit
gtfsInstanceGetTrips(fd, filters) ==
    LET kept == IF "serviceIds" \in DOMAIN filters
                THEN SelectSeq(fd.timetable.trips,
                         LAMBDA run : \E k \in DOMAIN filters.serviceIds :
                                          filters.serviceIds[k] = run.service_id)
                ELSE fd.timetable.trips
    IN TakeRows(kept, filters.limit)

\* gtfsApi.getTrips(filters) and gtfsApi.getStopTimes(filters) of the worker:
\* the limit defaults to 10 trips, to 20 stop times
WithLimit(filters, fallback) ==
    [field \in DOMAIN filters \cup {"limit"} |->
        IF field \in DOMAIN filters THEN filters[field] ELSE fallback]

getTrips(fd, filters) == gtfsInstanceGetTrips(fd, WithLimit(filters, 10))

\* every trip of the model has one stop time
getStopTimes(fd, filters) == gtfsInstanceGetTrips(fd, WithLimit(filters, 20))

\* gtfsInstance.getCalendarDatesForDate(date)
getCalendarDatesForDate(fd, date) ==
    {cd \in fd.timetable.calendarDates : cd.date = date}

\* gtfsInstance.getCalendarByServiceId(serviceId): the rows found, none or one
getCalendarByServiceId(fd, serviceId) ==
    {row \in fd.timetable.calendar : row.service_id = serviceId}

\* parseInt(text, 10) of a text of digits
RECURSIVE parseInt(_)
parseInt(text) ==
    IF text = <<>> THEN 0
    ELSE 10 * parseInt(SubSeq(text, 1, Len(text) - 1)) + DigitValue(text[Len(text)])

\* new Date(year, month, day).getDay(): 0 is Sunday; month counts from 0
getDay(year, month, day) ==
    LET m == month + 1
        y == IF m <= 2 THEN year - 1 ELSE year
        era == y \div 400
        yoe == y - era * 400
        mp == (m + 9) % 12
        doy == (153 * mp + 2) \div 5 + day - 1
        doe == yoe * 365 + yoe \div 4 - yoe \div 100 + doy
        days == era * 146097 + doe - 719468
    IN (days + 4) % 7

dayNames ==
    <<"sunday", "monday", "tuesday", "wednesday", "thursday", "friday", "saturday">>

\* a <= b for two strings of digits, in the order of their characters
DateAtMost(a, b) ==
    CompareKeys([i \in DOMAIN a |-> DigitValue(a[i])],
                [i \in DOMAIN b |-> DigitValue(b[i])]) <= 0

\* the number of trips getActiveServiceIds reads to find the services
TripScanLimit == 10000

\* the body of the loop of getActiveServiceIds: is the service pushed
IsActive(fd, date, dayName, serviceId) ==
    LET calendarDates == getCalendarDatesForDate(fd, date)
        addedServices == {cd.service_id : cd \in {c \in calendarDates :
                                                     c.exception_type = 1}}
        removedServices == {cd.service_id : cd \in {c \in calendarDates :
                                                       c.exception_type = 2}}
    IN IF serviceId \in removedServices THEN FALSE
       ELSE IF serviceId \in addedServices THEN TRUE
       ELSE \E calendar \in getCalendarByServiceId(fd, serviceId) :
                /\ DateAtMost(calendar.start_date, date)
                /\ DateAtMost(date, calendar.end_date)
                /\ dayName \in calendar.days

\* getActiveServiceIds(date)
getActiveServiceIds(fd, date) ==
    LET year == parseInt(SubSeq(date, 1, 4))
        month == parseInt(SubSeq(date, 5, 6)) - 1
        day == parseInt(SubSeq(date, 7, 8))
        dayName == dayNames[getDay(year, month, day) + 1]
        trips == gtfsInstanceGetTrips(fd, [limit |-> TripScanLimit])
        uniqueServiceIds ==
            Distinct(SelectSeq([k \in DOMAIN trips |-> trips[k].service_id],
                               LAMBDA serviceId : serviceId # ""))
    IN SelectSeq(uniqueServiceIds,
                 LAMBDA serviceId : IsActive(fd, date, dayName, serviceId))

\* the filters the getTrips and getStopTimes cases of executeTool build from
\* the input
DateFilters(fd, input) ==
    LET given == "serviceIds" \in DOMAIN input
        asked == IF given THEN [serviceIds |-> input.serviceIds] ELSE NoOptions
        dated == IF "date" \in DOMAIN input /\ ~given
                 THEN Only({IF Len(activeServiceIds) > 0
                            THEN [serviceIds |-> activeServiceIds]
                            ELSE asked :
                              activeServiceIds \in
                                  {getActiveServiceIds(fd, input.date)}})
                 ELSE asked
    IN IF "limit" \in DOMAIN input
       THEN [limit |-> input.limit] @@ dated
       ELSE dated

\* executeTool(gtfsApi, 'getTrips' or 'getStopTimes', input) with the worker
\* answering from the feed
executeToolOnFeed(fd, toolName, input) ==
    IF toolName = "getTrips"
    THEN Returned(JsonText(getTrips(fd, DateFilters(fd, input))))
    ELSE Returned(JsonText(getStopTimes(fd, DateFilters(fd, input))))

\* the defaults the schema of the findItinerary tool states to the model
SchemaDefaults == [maxTransfers |-> 3, journeysCount |-> 3]

\* executeTool, case 'findItinerary': the options given to the worker
ItineraryOptions(input) ==
    (IF "maxTransfers" \in DOMAIN input
     THEN [maxTransfers |-> input.maxTransfers] ELSE NoOptions)
    @@ (IF "journeysCount" \in DOMAIN input
        THEN [journeysCount |-> input.journeysCount] ELSE NoOptions)

\* executeTool(gtfsApi, 'findItinerary', input) with the worker answering
\* from the feed: the text returned and the calls made to the routing library
executeFindItinerary(fd, input) ==
    Only({[result |-> Returned(JsonText(outcome.value)), calls |-> outcome.calls] :
             outcome \in {findItinerary(fd, input.startStopId, input.endStopId,
                                        input.date, input.departureTime,
                                        ItineraryOptions(input))}})

\* ------------------------------------------------- the worker specification
\* The worker's functions applied to inputs drawn from bounded sets; the hook
\* stays idle.  The functions keep no state between calls, so one call is made
\* of each loaded feed.
hookVars == <<messages, isProcessing, lastResponse, state, errorMessage,
              waitingFor, apiKey, gtfsApi, gtfsLoadingState, ex, timers,
              modelCalls, concurrentCalls, deviations, resets, limits,
              tokenStats>>

HookIdle ==
    /\ messages = <<>>
    /\ isProcessing = FALSE
    /\ lastResponse = <<>>
    /\ state = "idle"
    /\ errorMessage = "none"
    /\ waitingFor = "idle"
    /\ apiKey = "sk-key"
    /\ gtfsLoadingState = "ready"
    /\ gtfsApi = GtfsApi
    /\ ex = [e \in Exchanges |-> NoExchange]
    /\ timers = [e \in Exchanges |-> "none"]
    /\ modelCalls = 0
    /\ concurrentCalls = 0
    /\ deviations = 0
    /\ resets = 0
    /\ limits = [exchanges |-> 0, deviations |-> 0, resets |-> 0, calls |-> 0]
    /\ tokenStats = NoTokens

\* a path of the routing graph: the journeys the timetable holds for it
PathKinds == [count : 0..MaxJourneysPerPath, first : {29400, 30600}]

PathLists == UNION {[1..n -> PathKinds] : n \in 0..MaxPaths}

\* feeds that differ in the stops they answer a word with; every pair of
\* names is asked of them
ResolutionFeeds ==
    {[byName |-> byName, paths |-> paths, legCount |-> 1, strayStop |-> FALSE,
      names |-> Queries \X Queries, timetable |-> NoTimetable] :
        byName \in [{WordGa, WordGe} -> StopLists],
        paths \in {<<>>, <<[count |-> 1, first |-> 29400]>>}}

RoutingByName == (WordGa :> <<"s1", "s2">>) @@ (WordGe :> <<"s2">>)

\* feeds that differ in what the routing library yields; one pair of names
\* is asked of them
RoutingFeeds ==
    {fd \in [byName : {RoutingByName}, paths : PathLists,
             legCount : 0..MaxLegs, strayStop : BOOLEAN,
             names : {{<<QueryGa, QueryGaGe>>}},
             timetable : {NoTimetable}] :
        fd.strayStop => fd.legCount >= 1}

\* the dates asked of the calendar: a Wednesday, the Saturday after it and a
\* Wednesday of the next year
Wednesday == ValidDate
Saturday == <<"2", "0", "2", "5", "1", "2", "0", "6">>
NextYear == <<"2", "0", "2", "6", "0", "1", "0", "7">>
CalendarDays == {Wednesday, Saturday, NextYear}

FirstOfDecember == <<"2", "0", "2", "5", "1", "2", "0", "1">>
FourthOfDecember == <<"2", "0", "2", "5", "1", "2", "0", "4">>
EndOfDecember == <<"2", "0", "2", "5", "1", "2", "3", "1">>

\* calendar.txt: a weekday service whose range starts on startDate, and a
\* weekend service; the service "sp" has no row
CalendarRows(startDate) ==
    {[service_id |-> "wk", start_date |-> startDate, end_date |-> EndOfDecember,
      days |-> {"monday", "tuesday", "wednesday", "thursday", "friday"}],
     [service_id |-> "we", start_date |-> FirstOfDecember,
      end_date |-> EndOfDecember, days |-> {"saturday", "sunday"}]}

\* calendar_dates.txt: the exceptions a feed may hold
CalendarExceptions ==
    [service_id : {"wk", "sp"}, date : {Wednesday}, exception_type : {1, 2}]

\* trips.txt: a small table, one of its trips without service, and a table
\* of more rows than getActiveServiceIds reads
TripTables ==
    {<<TripRun("wk", 1), TripRun("we", 1), TripRun("sp", 1), TripRun("", 1)>>,
     <<TripRun("wk", TripScanLimit), TripRun("sp", 1)>>}

\* feeds that differ in their trips and service calendar
CalendarFeeds ==
    {[byName |-> <<>>, paths |-> <<>>, legCount |-> 0, strayStop |-> FALSE,
      names |-> {},
      timetable |-> [trips |-> trips, calendar |-> CalendarRows(startDate),
                     calendarDates |-> calendarDates]] :
        trips \in TripTables,
        startDate \in {FirstOfDecember, FourthOfDecember},
        calendarDates \in SUBSET CalendarExceptions}

\* the feeds loaded into the worker
Feeds == ResolutionFeeds \cup RoutingFeeds \cup CalendarFeeds

\* the options given to the tools
OptionSets == {NoOptions, [journeysCount |-> 1]}

WorkerInit ==
    /\ HookIdle
    /\ LoaderIdle
    /\ feed \in Feeds
    /\ lastCall = NoCall

\* a call of executeTool(gtfsApi, toolName, input)
CallExecuteTool ==
    /\ lastCall = NoCall
    /\ \E api \in {NullApi, GtfsApi}, toolCall \in ToolCalls,
          backend \in BackendBehaviours :
           /\ backend = "throws" => toolCall.name \in BackendTools
           /\ lastCall' = [op |-> "executeTool", api |-> api,
                           toolName |-> toolCall.name, input |-> toolCall.input,
                           backend |-> backend,
                           result |-> executeTool(api, toolCall.name,
                                                  toolCall.input, backend)]
    /\ UNCHANGED <<hookVars, loaderVars, feed>>

\* a call of searchStopsByWords(query, limit)
CallSearchStopsByWords ==
    /\ lastCall = NoCall
    /\ \E query \in Queries, limit \in {1, 2, 20} :
           lastCall' = [op |-> "searchStopsByWords", query |-> query,
                        limit |-> limit,
                        result |-> searchStopsByWords(feed, query, limit)]
    /\ UNCHANGED <<hookVars, loaderVars, feed>>

\* a second call of searchStopsByWords on the same feed, with another query
CallSearchStopsByWordsAgain ==
    /\ lastCall.op = "searchStopsByWords"
    /\ "previous" \notin DOMAIN lastCall
    /\ \E query \in Queries \ {lastCall.query} :
           lastCall' = [op |-> "searchStopsByWords", query |-> query,
                        limit |-> lastCall.limit,
                        result |-> searchStopsByWords(feed, query, lastCall.limit),
                        previous |-> lastCall]
    /\ UNCHANGED <<hookVars, loaderVars, feed>>

\* a call of findItinerary(startStopId, endStopId, date, departureTime, options)
CallFindItinerary ==
    /\ lastCall = NoCall
    /\ \E time \in {TimeShort, TimeLong}, options \in OptionSets :
         \E outcome \in {findItinerary(feed, "s1", "s2", ValidDate, time, options)} :
           lastCall' = [op |-> "findItinerary", startStopId |-> "s1",
                        endStopId |-> "s2", date |-> ValidDate,
                        departureTime |-> time, options |-> options,
                        result |-> outcome.value, calls |-> outcome.calls]
    /\ UNCHANGED <<hookVars, loaderVars, feed>>

\* a call of findItineraryByName(startName, endName, date, departureTime, options)
CallFindItineraryByName ==
    /\ lastCall = NoCall
    /\ \E names \in feed.names, date \in Dates, time \in Times,
          options \in OptionSets :
         \E outcome \in {findItineraryByName(feed, names[1], names[2], date,
                                             time, options)} :
           lastCall' = [op |-> "findItineraryByName", startName |-> names[1],
                        endName |-> names[2], date |-> date,
                        departureTime |-> time, options |-> options,
                        result |-> outcome.value, calls |-> outcome.calls]
    /\ UNCHANGED <<hookVars, loaderVars, feed>>

\* the inputs given to getTrips and getStopTimes
DateInputs ==
    {[date |-> date] : date \in CalendarDays} \cup
    {[date |-> Wednesday, serviceIds |-> <<"we">>], [limit |-> 5]}

\* a call of getActiveServiceIds(date)
CallGetActiveServiceIds ==
    /\ lastCall = NoCall
    /\ \E date \in CalendarDays :
           lastCall' = [op |-> "getActiveServiceIds", date |-> date,
                        result |-> getActiveServiceIds(feed, date)]
    /\ UNCHANGED <<hookVars, loaderVars, feed>>

\* a call of executeTool for getTrips or getStopTimes on a loaded feed
CallExecuteToolOnFeed ==
    /\ lastCall = NoCall
    /\ \E toolName \in {"getTrips", "getStopTimes"}, input \in DateInputs :
           lastCall' = [op |-> "executeToolOnFeed", toolName |-> toolName,
                        input |-> input,
                        result |-> executeToolOnFeed(feed, toolName, input)]
    /\ UNCHANGED <<hookVars, loaderVars, feed>>

\* the inputs the model may give the findItinerary tool
ItineraryInputs ==
    {[startStopId |-> "s1", endStopId |-> "s2", date |-> ValidDate,
      departureTime |-> TimeLong] @@ extra :
        extra \in {NoOptions, [journeysCount |-> 1], [maxTransfers |-> 1],
                   [journeysCount |-> 3, maxTransfers |-> 1]}}

\* a call of executeTool(gtfsApi, 'findItinerary', input)
CallFindItineraryTool ==
    /\ lastCall = NoCall
    /\ \E input \in ItineraryInputs :
         \E outcome \in {executeFindItinerary(feed, input)} :
           lastCall' = [op |-> "findItineraryTool", input |-> input,
                        result |-> outcome.result, calls |-> outcome.calls]
    /\ UNCHANGED <<hookVars, loaderVars, feed>>

\* the times of day rendered: seconds since midnight of the service day,
\* after-midnight values and values of a hundred hours and more included
TimeValues == {0, 59, 3599, 29730, 86399, 86400, 90061, 172800, 360000, 363723}

\* a call of secondsToTimeString(seconds)
CallSecondsToTimeString ==
    /\ lastCall = NoCall
    /\ \E seconds \in TimeValues :
           lastCall' = [op |-> "secondsToTimeString", seconds |-> seconds,
                        result |-> secondsToTimeString(seconds)]
    /\ UNCHANGED <<hookVars, loaderVars, feed>>

WorkerNext ==
    \/ CallExecuteTool
    \/ CallSearchStopsByWords
    \/ CallSearchStopsByWordsAgain
    \/ CallFindItinerary
    \/ CallFindItineraryByName
    \/ CallGetActiveServiceIds
    \/ CallExecuteToolOnFeed
    \/ CallSecondsToTimeString
    \/ CallFindItineraryTool

WorkerSpec == WorkerInit /\ [][WorkerNext]_vars

\* ------------------------------------------- the entry points of the hook
\* startVoiceChat and processTextInput invoked once on a hook and a chat
\* store in any condition: with or without an API key and a backend handle,
\* with or without a history, token totals and a raised processing flag.

\* the histories the chat store may hold when an entry point is invoked
StoredHistories ==
    { <<>>,
      <<TextTurn("user", Transcript), BlockTurn("assistant", <<TextBlock>>)>> }

\* the token totals the hook may hold when an entry point is invoked
TokenTotals == {NoTokens, [totalInputTokens |-> 2, totalOutputTokens |-> 1]}

EntryInit ==
    /\ messages \in StoredHistories
    /\ isProcessing \in BOOLEAN
    /\ lastResponse = <<>>
    /\ state \in VoiceChatStates
    /\ errorMessage = "none"
    /\ waitingFor = "idle"
    /\ apiKey \in {"", "sk-key"}
    /\ gtfsApi \in {NullApi, GtfsApi}
    /\ gtfsLoadingState = "ready"
    /\ ex = [e \in Exchanges |-> NoExchange]
    /\ timers = [e \in Exchanges |-> "none"]
    /\ modelCalls = 0
    /\ concurrentCalls = 0
    /\ deviations = 0
    /\ resets = 0
    /\ limits = [exchanges |-> 1, deviations |-> 0, resets |-> 0, calls |-> 1]
    /\ tokenStats \in TokenTotals
    /\ LoaderIdle
    /\ feed = NoFeed
    /\ lastCall = NoCall

\* what the store and the hook held when the entry point was invoked
Invocation(op) ==
    [op |-> op, messages |-> messages, tokenStats |-> tokenStats,
     isProcessing |-> isProcessing]

\* an invocation of startVoiceChat()
InvokeStartVoiceChat ==
    /\ lastCall = NoCall
    /\ startVoiceChat
    /\ lastCall' = Invocation("startVoiceChat")
    /\ UNCHANGED <<apiKey, gtfsApi, gtfsLoadingState, resets, limits, feed, tokenStats, loaderVars>>

\* an invocation of processTextInput(text)
InvokeProcessTextInput ==
    /\ lastCall = NoCall
    /\ \E text \in TextInputs : processTextInput(text)
    /\ lastCall' = Invocation("processTextInput")
    /\ UNCHANGED <<apiKey, gtfsApi, gtfsLoadingState, resets, limits, feed, tokenStats, loaderVars>>

EntryNext ==
    \/ InvokeStartVoiceChat
    \/ InvokeProcessTextInput

EntrySpec == EntryInit /\ [][EntryNext]_vars

\* ---------------------------------------------- the loader: useGtfsWorker
\* The hook that creates the backend worker and loads the transit feed in
\* it.  A worker that was terminated delivers no further message on its own
\* port: the promise of its initialize() call stays pending for ever.

Urls == {DefaultUrl, OtherUrl}

UnusedWorkers == {w \in WorkerIds : workers[w].status = "none"}

NextWorker == CHOOSE w \in UnusedWorkers : \A v \in UnusedWorkers : w <= v

CleanUpKeepsWorker(ws, ref) == ws

\* workerRef.current.terminate() if a worker is held
CleanUp(ws, ref) ==
    IF ref = NoWorker THEN ws ELSE [ws EXCEPT ![ref].terminated = TRUE]

\* initializeWorker up to its await of api.initialize(gtfsUrl, onProgress),
\* or through its catch block when the worker cannot be created
initializeWorker(url) ==
    \E created \in BOOLEAN :
        IF created
        THEN /\ UnusedWorkers # {}
             /\ workers' = [CleanUp(workers, workerRef) EXCEPT ![NextWorker] =
                               [status |-> "running", terminated |-> FALSE,
                                url |-> url]]
             /\ workerRef' = NextWorker
             /\ apiRef' = NextWorker
             /\ loadingState' = "loading"
             /\ error' = "none"
             /\ progress' = "none"
        ELSE /\ workers' = CleanUp(workers, workerRef)
             /\ workerRef' = NoWorker
             /\ apiRef' = NoWorker
             /\ loadingState' = "error"
             /\ error' = "worker not created"
             /\ progress' = "none"

\* the effect of the first render
Mount ==
    /\ loadingState = "idle"
    /\ initializeWorker(renderedUrl)
    /\ UNCHANGED <<gtfsUrl, renderedUrl, hookVars, feed, lastCall>>

\* handleSave of the settings tab with another feed URL: setGtfsUrl, then
\* reload(), which is the initializeWorker of the last render
handleSave ==
    /\ loadingState # "idle"
    /\ renderedUrl = gtfsUrl
    /\ \E url \in Urls \ {gtfsUrl} : gtfsUrl' = url
    /\ initializeWorker(renderedUrl)
    /\ UNCHANGED <<renderedUrl, hookVars, feed, lastCall>>

\* the render that follows a change of the feed URL: the cleanup of the
\* effect terminates the worker held, which initializeWorker terminates again
EffectRuns ==
    /\ renderedUrl # gtfsUrl
    /\ renderedUrl' = gtfsUrl
    /\ initializeWorker(gtfsUrl)
    /\ UNCHANGED <<gtfsUrl, hookVars, feed, lastCall>>

\* the initialize() call made to worker w is answered
Answered(w) == workers[w].status = "running" /\ ~workers[w].terminated

\* api.initialize resolves: the rest of the try block
InitializeResolves(w) ==
    /\ Answered(w)
    /\ workers' = [workers EXCEPT ![w].status = "initialized"]
    /\ loadingState' = "ready"
    /\ UNCHANGED <<error, progress, workerRef, apiRef, gtfsUrl, renderedUrl,
                   hookVars, feed, lastCall>>

\* api.initialize rejects: the catch block
InitializeRejects(w) ==
    /\ Answered(w)
    /\ workers' = [workers EXCEPT ![w].status = "failed"]
    /\ error' = "feed not loaded"
    /\ loadingState' = "error"
    /\ UNCHANGED <<progress, workerRef, apiRef, gtfsUrl, renderedUrl,
                   hookVars, feed, lastCall>>

\* the progress callback is called by worker w; a report posted before the
\* worker was terminated may still arrive
ProgressReported(w) ==
    /\ workers[w].status = "running"
    /\ progress' = [worker |-> w]
    /\ UNCHANGED <<loadingState, error, workerRef, apiRef, workers, gtfsUrl,
                   renderedUrl, hookVars, feed, lastCall>>

LoaderInit ==
    /\ HookIdle
    /\ LoaderIdle
    /\ feed = NoFeed
    /\ lastCall = NoCall

LoaderNext ==
    \/ Mount
    \/ handleSave
    \/ EffectRuns
    \/ \E w \in WorkerIds : InitializeResolves(w)
    \/ \E w \in WorkerIds : InitializeRejects(w)
    \/ \E w \in WorkerIds : ProgressReported(w)

LoaderSpec == LoaderInit /\ [][LoaderNext]_vars

\* ------------------------------------------------------------ properties
\* the failures that reach a catch block from outside the tool-use loop
OutsideFailures ==
    {"Speech recognition error", "model service error", "Speech synthesis error"}

IsAssistantTurn(turn) == turn.role = "assistant" /\ turn.content.kind = "blocks"

\* C1: whenever a model response carries no tool-use block, the exchange
\* appends the assistant turn and returns the response text: it does not fail
\* with the iteration-ceiling error.
C1_FinalAnswerReturned ==
    \A e \in Exchanges :
        ex[e].finalSeen =>
            /\ IsAssistantTurn(ex[e].appended[Len(ex[e].appended)])
            /\ ex[e].error # TooManyIterations

\* C2: no exchange issues more than maxIterations model calls; an exchange
\* whose every response requested a tool, and that no outside failure ended,
\* has made exactly maxIterations calls and failed with the ceiling error.
C2_CeilingAfterTenCalls ==
    \A e \in Exchanges :
        /\ ex[e].iterations <= maxIterations
        /\ ex[e].pc = "awaitModel" => Cardinality(ex[e].pending) = 1
        /\ (ex[e].pc = "done" /\ ~ex[e].finalSeen /\ ex[e].error \notin OutsideFailures)
               => /\ ex[e].error = TooManyIterations
                  /\ ex[e].iterations = maxIterations
        /\ (ex[e].error = TooManyIterations /\ ~ex[e].finalSeen)
               => ex[e].iterations = maxIterations

C2_Witness ==
    \E e \in Exchanges :
        /\ ex[e].pc = "done"
        /\ ~ex[e].finalSeen
        /\ ex[e].error = TooManyIterations
        /\ ex[e].iterations = maxIterations
        /\ Len(ex[e].appended) = 1 + 2 * maxIterations

\* the ids of the tool-use blocks of an assistant turn, in order
ToolUseIds(turn) ==
    LET uses == extractToolUseFromContent(turn.content.blocks)
    IN [k \in 1..Len(uses) |-> uses[k].id]

RequestsTools(turn) == IsAssistantTurn(turn) /\ ToolUseIds(turn) # <<>>

IsResultTurn(turn) ==
    /\ turn.role = "user"
    /\ turn.content.kind = "blocks"
    /\ \A k \in 1..Len(turn.content.blocks) :
           turn.content.blocks[k].type = "tool_result"

\* turn u holds exactly the results of the tool-use blocks of turn a, in order
Answers(a, u) ==
    /\ IsResultTurn(u)
    /\ Len(u.content.blocks) = Len(ToolUseIds(a))
    /\ \A k \in 1..Len(u.content.blocks) :
           u.content.blocks[k].tool_use_id = ToolUseIds(a)[k]

\* every tool-use turn is followed by its result turn; only when the round is
\* still executing tools may the last turn be a tool-use turn
Correlated(turns, executing) ==
    \A i \in 1..Len(turns) :
        RequestsTools(turns[i]) =>
            IF i < Len(turns) THEN Answers(turns[i], turns[i + 1]) ELSE executing

OnlyExchange(e) ==
    /\ resets = 0
    /\ ex[e].pc # "unused"
    /\ \A f \in Exchanges \ {e} : ex[f].pc = "unused"

\* C3: each assistant turn with tool-use blocks i1..in that the loop appends
\* is followed, among the turns the loop appends, by one user turn of exactly
\* n tool_result blocks with ids i1..in in order; that turn is appended
\* before the next model call is issued and is part of the list the call is
\* given; while the exchange is alone the store holds exactly these turns.
C3_ToolResultsCorrelated ==
    \A e \in Exchanges :
        /\ Correlated(ex[e].appended, ex[e].pc = "awaitTool")
        /\ \A c \in ex[e].pending :
               c.kind = "model" =>
                   /\ ex[e].pc = "awaitModel"
                   /\ c.messages = ex[e].capturedMessages \o ex[e].appended
        /\ OnlyExchange(e) => messages = ex[e].appended

HasToolUse(turn, toolName) ==
    /\ IsAssistantTurn(turn)
    /\ \E k \in 1..Len(turn.content.blocks) :
           /\ turn.content.blocks[k].type = "tool_use"
           /\ turn.content.blocks[k].name = toolName

C3_Witness ==
    \E e \in Exchanges :
        /\ ex[e].pc = "awaitModel"
        /\ \E i \in 1..(Len(ex[e].appended) - 1) :
               /\ HasToolUse(ex[e].appended[i], "getWeather")
               /\ Len(ToolUseIds(ex[e].appended[i])) = MaxToolUses
               /\ Answers(ex[e].appended[i], ex[e].appended[i + 1])

\* the tool_result blocks an exchange has collected or appended
ResultBlocks(x) ==
    {x.toolResults[k] : k \in 1..Len(x.toolResults)} \cup
    UNION {{x.appended[i].content.blocks[k] :
                k \in 1..Len(x.appended[i].content.blocks)} :
           i \in {j \in 1..Len(x.appended) : IsResultTurn(x.appended[j])}}

\* the failed execution f has not ended the exchange x: the round goes on with
\* the remaining blocks, or the next model call was issued, or the ceiling
\* ended the exchange
GoesOn(x, f) ==
    /\ x.error \in {"none", TooManyIterations} \cup OutsideFailures
    /\ \/ x.iterations > f.round
       \/ /\ x.iterations = f.round
          /\ x.pc = "awaitTool"
          /\ Len(x.toolResults) >= f.block
       \/ /\ x.iterations = f.round
          /\ f.round = maxIterations
          /\ x.error = TooManyIterations

\* C4 as stated: every failed tool execution (backend throws, null handle,
\* invalid arguments) yields a tool result whose content is the JSON text
\* {"error": message}, and the exchange goes on.
C4_FailureYieldsErrorPayload ==
    \A e \in Exchanges : \A f \in ex[e].failed :
        /\ \E b \in ResultBlocks(ex[e]) : b.tool_use_id = f.id
        /\ \A b \in ResultBlocks(ex[e]) :
               b.tool_use_id = f.id => DOMAIN b.content.json = {"error"}
        /\ GoesOn(ex[e], f)

\* C4 amended: a backend call that throws, and any backend tool asked of a
\* null handle, yields the JSON text {"error": message}; findItineraryByName
\* with a malformed date yields the JSON text of the worker's structured
\* result (status "error", errorType INVALID_DATE_TIME) instead; in every
\* case the exchange is not aborted and goes on with the remaining blocks
\* and the next model call.
C4_FailureAnsweredAndLoopGoesOn ==
    /\ \A e \in Exchanges : \A f \in ex[e].failed :
           /\ \E b \in ResultBlocks(ex[e]) :
                  /\ b.tool_use_id = f.id
                  /\ f.cause = "throws" =>
                         b.content = JsonText(ErrorPayload(<<BackendFailure>>))
                  /\ f.cause = "invalid arguments" =>
                         /\ b.content.json.status = "error"
                         /\ b.content.json.errorType = "INVALID_DATE_TIME"
                         /\ "error" \notin DOMAIN b.content.json
           /\ GoesOn(ex[e], f)
    /\ \A call \in ToolCalls, backend \in BackendBehaviours :
           call.name # "getCurrentDateTime" =>
               executeTool(NullApi, call.name, call.input, backend) =
                   Returned(JsonText(ErrorPayload(<<"GTFS not initialized">>)))

C4_Witness ==
    \E e \in Exchanges : \E f \in ex[e].failed :
        /\ f.cause = "throws"
        /\ f.block = 1
        /\ ex[e].pc = "awaitModel"
        /\ ex[e].iterations = f.round + 1
        /\ \E b \in ResultBlocks(ex[e]) :
               /\ b.tool_use_id = ToolUseId(e, f.round, MaxToolUses)
               /\ "rows" \in DOMAIN b.content.json

\* C5: an exchange abandoned by stopChat or resetConversation while it was in
\* flight appends no further turn to the conversation history.
C5_AbandonedAppendsNothing ==
    [][\A e \in Exchanges :
          ex[e].abandoned => ex'[e].appended = ex[e].appended]_vars

ActivePcs == {"listening", "awaitModel", "awaitTool"}

\* C6: at most one exchange is listening, awaiting the model or executing
\* tools at any time.
C6_OneActiveExchange ==
    Cardinality({e \in Exchanges : ex[e].pc \in ActivePcs}) <= 1

\* C7: within an exchange at most one model call or tool execution is
\* outstanding; the outstanding tool execution is that of the first block
\* without a result, the executions were started in block order, and a model
\* call is outstanding only when every appended tool-use turn has its results.
C7_OneOutstandingCall ==
    \A e \in Exchanges :
        LET x == ex[e] IN
        /\ Cardinality(x.pending) <= 1
        /\ x.pc = "awaitTool" =>
               /\ Len(x.toolResults) < Len(x.toolUses)
               /\ x.pending = {ToolCall(x.toolUses[Len(x.toolResults) + 1])}
               /\ Len(x.dispatched) = Len(x.toolResults) + 1
               /\ \A j \in 1..Len(x.dispatched) :
                      x.dispatched[j] = x.toolUses[j].id
               /\ \A j \in 1..Len(x.toolResults) :
                      x.toolResults[j].tool_use_id = x.toolUses[j].id
        /\ x.pc = "awaitModel" =>
               /\ x.pending = {ModelCall(x.sent)}
               /\ Correlated(x.appended, FALSE)
        /\ x.pc \notin {"awaitTool", "awaitModel"} => x.pending = {}

C7_Witness ==
    \E e \in Exchanges :
        /\ ex[e].pc = "awaitTool"
        /\ Len(ex[e].toolUses) = MaxToolUses
        /\ Len(ex[e].toolResults) = MaxToolUses - 1
        /\ ex[e].pending = {ToolCall(ex[e].toolUses[MaxToolUses])}

NoneInFlight == \A e \in Exchanges : ~InFlight(e)

\* C8: the step in which an exchange fails leaves the state "error", the
\* processing flag false and waitingFor "idle", with the main button ready to
\* start an exchange once the backend is ready; and whenever no exchange is in
\* flight the state is "idle" or "error", the processing flag is false and
\* waitingFor is "idle".
C8_FailureLeavesReady ==
    /\ [](NoneInFlight =>
             /\ state \in {"idle", "error"}
             /\ ~isProcessing
             /\ waitingFor = "idle")
    /\ [][\A e \in Exchanges :
              (InFlight(e) /\ ex'[e].pc = "done" /\ ex'[e].error # "none") =>
                  /\ state' = "error"
                  /\ ~isProcessing'
                  /\ waitingFor' = "idle"
                  /\ gtfsLoadingState' = "ready" => ~isButtonDisabled']_vars

C8_Witness ==
    \E e \in Exchanges :
        /\ ex[e].pc = "done"
        /\ ex[e].error = "model service error"
        /\ ex[e].iterations > 1
        /\ NoneInFlight
        /\ state = "error"
        /\ ~isButtonDisabled

\* C9: the exchange that ends with the ceiling error without having seen a
\* final answer has appended the user message and then maxIterations pairs of
\* an assistant tool-use turn and its tool-result turn; when it is the only
\* exchange run on an empty history, the store holds exactly these turns.
C9_HistoryAtCeiling ==
    \A e \in Exchanges :
        (ex[e].pc = "done" /\ ex[e].error = TooManyIterations /\ ~ex[e].finalSeen) =>
            LET h == ex[e].appended IN
            /\ Len(h) = 1 + 2 * maxIterations
            /\ h[1] = TextTurn("user", Transcript)
            /\ \A r \in 1..maxIterations :
                   /\ RequestsTools(h[2 * r])
                   /\ Answers(h[2 * r], h[2 * r + 1])
            /\ OnlyExchange(e) => messages = h

C9_Witness ==
    \E e \in Exchanges :
        /\ OnlyExchange(e)
        /\ ex[e].error = TooManyIterations
        /\ ~ex[e].finalSeen
        /\ Len(messages) = 1 + 2 * maxIterations
        /\ messages[1] = TextTurn("user", Transcript)

IsPrefix(s, t) == Len(s) <= Len(t) /\ SubSeq(t, 1, Len(s)) = s

\* C10: the list given to the first model call is the history captured at the
\* start followed by the new user message; the list given to each later call
\* is the list given to the call before it followed by one assistant tool-use
\* turn and its tool-result turn; the exchange's list only grows, the store
\* holds the same list while the exchange is alone, and no step other than a
\* reset removes, alters or reorders a turn of the store.
C10_MessageListGrowsByRound ==
    /\ [](\A e \in Exchanges :
             LET x == ex[e] IN
             /\ x.pc = "awaitModel" =>
                    /\ x.pending = {ModelCall(x.sent)}
                    /\ x.sent = x.currentMessages
                    /\ x.iterations = 1 =>
                           x.sent = Append(x.capturedMessages,
                                           TextTurn("user", Transcript))
                    /\ x.iterations > 1 =>
                           /\ Len(x.sent) = Len(x.prevSent) + 2
                           /\ IsPrefix(x.prevSent, x.sent)
                           /\ RequestsTools(x.sent[Len(x.sent) - 1])
                           /\ Answers(x.sent[Len(x.sent) - 1], x.sent[Len(x.sent)])
             /\ x.pc = "awaitTool" =>
                    /\ Len(x.currentMessages) = Len(x.sent) + 1
                    /\ IsPrefix(x.sent, x.currentMessages)
             /\ (OnlyExchange(e) /\ x.pc \in {"awaitModel", "awaitTool"}) =>
                    messages = x.currentMessages)
    /\ [][IsPrefix(messages, messages') \/ resets' # resets]_vars

C10_Witness ==
    \E e \in Exchanges :
        /\ ex[e].pc = "awaitModel"
        /\ ex[e].capturedMessages # <<>>
        /\ ex[e].iterations > 2
        /\ messages = ex[e].sent

\* the tool names executeTool dispatches on
DispatchTable == BackendTools \cup {"getCurrentDateTime"}

\* C11 as stated: for every tool name outside the dispatch table, whatever
\* the input and whatever the backend handle (null included), executeTool does
\* not throw and returns the JSON text {"error": "Unknown tool: <name>"}.
C11_UnknownToolReported ==
    (lastCall.op = "executeTool" /\ lastCall.toolName \notin DispatchTable) =>
        lastCall.result =
            Returned(JsonText(ErrorPayload(<<"Unknown tool: ", lastCall.toolName>>)))

\* the error type of a findItineraryByName result, "none" for a success
ErrorTypeOf(result) ==
    IF result.status = "error" THEN result.errorType ELSE "none"

\* a findItineraryByName call was made with a well-formed date and time
ByNameCallMade ==
    /\ lastCall.op = "findItineraryByName"
    /\ DateFormatOk(lastCall.date)
    /\ TimeFormatOk(lastCall.departureTime)

\* the candidate lists of the call made
StartCandidates == searchStopsByWords(feed, lastCall.startName, 10)
EndCandidates == searchStopsByWords(feed, lastCall.endName, 10)

\* at least 3 candidates share the top match score and none of those tied
\* candidates has a name equal to the query
TiedWithoutExactMatch(stops, name) ==
    /\ Len(stops) > 0
    /\ Len(SameScore(stops)) >= 3
    /\ \A i \in DOMAIN SameScore(stops) : ~IsExactMatch(SameScore(stops)[i], name)

\* C12 as stated: for a valid date and time and two non-empty candidate
\* lists, when at least 3 candidates of a side share the top match score and
\* none of those tied candidates is named exactly as the query, the result is
\* AMBIGUOUS_START_STOP (start side) or AMBIGUOUS_END_STOP (end side).
C12_TieWithoutExactMatchIsAmbiguous ==
    (ByNameCallMade /\ Len(StartCandidates) > 0 /\ Len(EndCandidates) > 0) =>
        /\ TiedWithoutExactMatch(StartCandidates, lastCall.startName) =>
               ErrorTypeOf(lastCall.result) = "AMBIGUOUS_START_STOP"
        /\ (/\ ~TiedWithoutExactMatch(StartCandidates, lastCall.startName)
            /\ TiedWithoutExactMatch(EndCandidates, lastCall.endName)) =>
               ErrorTypeOf(lastCall.result) = "AMBIGUOUS_END_STOP"

\* several candidates share the top match score and one of those tied
\* candidates has a name equal to the query
TiedWithExactMatch(stops, name) ==
    /\ Len(stops) > 0
    /\ Len(SameScore(stops)) >= 2
    /\ \E i \in DOMAIN SameScore(stops) : IsExactMatch(SameScore(stops)[i], name)

\* the results that name the stops selected
NamesSelectedStops(result) ==
    result.status = "success" \/ result.errorType = "NO_ITINERARY_FOUND"

\* the stop the call selected for the start name is named exactly as asked
StartSelectionIsExact ==
    /\ ErrorTypeOf(lastCall.result) # "AMBIGUOUS_START_STOP"
    /\ NamesSelectedStops(lastCall.result) =>
           IsExactMatch(lastCall.result.startStop, lastCall.startName)
    /\ ErrorTypeOf(lastCall.result) = "SAME_START_AND_END" =>
           IsExactMatch(lastCall.result.stop, lastCall.startName)

\* the stop the call selected for the end name is named exactly as asked
EndSelectionIsExact ==
    /\ ErrorTypeOf(lastCall.result) # "AMBIGUOUS_END_STOP"
    /\ NamesSelectedStops(lastCall.result) =>
           IsExactMatch(lastCall.result.endStop, lastCall.endName)
    /\ ErrorTypeOf(lastCall.result) = "SAME_START_AND_END" =>
           IsExactMatch(lastCall.result.stop, lastCall.endName)

\* C13 as stated: when several candidates of a side are tied at the top match
\* score and one of them is named exactly as the query (case-insensitive,
\* trimmed), no ambiguity error is returned for that side and the stop
\* selected for that side is the exact-match stop.
C13_ExactMatchAmongTiedIsSelected ==
    (ByNameCallMade /\ Len(StartCandidates) > 0 /\ Len(EndCandidates) > 0) =>
        /\ TiedWithExactMatch(StartCandidates, lastCall.startName) =>
               StartSelectionIsExact
        /\ (/\ TiedWithExactMatch(EndCandidates, lastCall.endName)
            /\ ErrorTypeOf(lastCall.result) # "AMBIGUOUS_START_STOP") =>
               EndSelectionIsExact

\* the call got as far as selecting a stop for each name
StopsSelected ==
    /\ ByNameCallMade
    /\ Len(StartCandidates) > 0
    /\ Len(EndCandidates) > 0
    /\ ~IsAmbiguous(StartCandidates, lastCall.startName)
    /\ ~IsAmbiguous(EndCandidates, lastCall.endName)

\* the call made the named call to the backend or to another worker method
Called(fn) == \E i \in DOMAIN lastCall.calls : lastCall.calls[i].fn = fn

\* C14: whenever the stops findItineraryByName selects for the start name and
\* for the end name have the same stop_id, the result is SAME_START_AND_END
\* for that stop and the itinerary engine is not invoked, also when the two
\* names differ textually.
C14_SameStopGuard ==
    (StopsSelected /\ StartCandidates[1].stop_id = EndCandidates[1].stop_id) =>
        /\ ErrorTypeOf(lastCall.result) = "SAME_START_AND_END"
        /\ lastCall.result.stop.stop_id = StartCandidates[1].stop_id
        /\ ~Called("findItinerary")
        /\ ~Called("findAllPaths")
        /\ ~Called("findScheduledTrips")

C14_Witness ==
    /\ StopsSelected
    /\ lastCall.startName # lastCall.endName
    /\ StartCandidates[1].stop_id = EndCandidates[1].stop_id
    /\ lastCall.result.errorType = "SAME_START_AND_END"

\* C15: findItineraryByName returns INVALID_DATE_TIME when the date is not
\* exactly 8 digits or the departure time is not of the form HH:MM or
\* HH:MM:SS, and then makes no stop search, no itinerary query and no
\* name lookup; a valid HH:MM time reaches the itinerary engine as HH:MM:00.
C15_InvalidDateTimeRejected ==
    lastCall.op = "findItineraryByName" =>
        /\ (~DateFormatOk(lastCall.date) \/ ~TimeFormatOk(lastCall.departureTime)) =>
               /\ ErrorTypeOf(lastCall.result) = "INVALID_DATE_TIME"
               /\ lastCall.calls = <<>>
        /\ (ByNameCallMade /\ Len(lastCall.departureTime) = 5) =>
               \A i \in DOMAIN lastCall.calls :
                   lastCall.calls[i].fn = "findItinerary" =>
                       lastCall.calls[i].args[4] =
                           lastCall.departureTime \o <<":", "0", "0">>

C15_Witness ==
    /\ lastCall.op = "findItineraryByName"
    /\ DateFormatOk(lastCall.date)
    /\ ~TimeFormatOk(lastCall.departureTime)
    /\ Len(StartCandidates) > 0
    /\ lastCall.result.errorType = "INVALID_DATE_TIME"
    /\ lastCall.calls = <<>>

ErrorTypes ==
    {"INVALID_DATE_TIME", "BOTH_STOPS_NOT_FOUND", "START_STOP_NOT_FOUND",
     "END_STOP_NOT_FOUND", "AMBIGUOUS_START_STOP", "AMBIGUOUS_END_STOP",
     "SAME_START_AND_END", "NO_ITINERARY_FOUND"}

\* what the itinerary engine returns for the two first candidates of the call
EngineJourneys ==
    findItinerary(feed, StartCandidates[1].stop_id, EndCandidates[1].stop_id,
                  lastCall.date, NormalizedTime(lastCall.departureTime),
                  [maxTransfers |-> Option(lastCall.options, "maxTransfers", 3),
                   journeysCount |-> Option(lastCall.options, "journeysCount", 3)]
                 ).value.journeys

\* the first failing step of the call made, in the fixed order; "none" when
\* no step fails
FirstFailingStep ==
    IF ~DateFormatOk(lastCall.date) \/ ~TimeFormatOk(lastCall.departureTime)
    THEN "INVALID_DATE_TIME"
    ELSE IF Len(StartCandidates) = 0 /\ Len(EndCandidates) = 0
    THEN "BOTH_STOPS_NOT_FOUND"
    ELSE IF Len(StartCandidates) = 0 THEN "START_STOP_NOT_FOUND"
    ELSE IF Len(EndCandidates) = 0 THEN "END_STOP_NOT_FOUND"
    ELSE IF TiedWithoutExactMatch(StartCandidates, lastCall.startName)
    THEN "AMBIGUOUS_START_STOP"
    ELSE IF TiedWithoutExactMatch(EndCandidates, lastCall.endName)
    THEN "AMBIGUOUS_END_STOP"
    ELSE IF StartCandidates[1].stop_id = EndCandidates[1].stop_id
    THEN "SAME_START_AND_END"
    ELSE IF Len(EngineJourneys) = 0 THEN "NO_ITINERARY_FOUND"
    ELSE "none"

\* C16 as stated: findItineraryByName returns the outcome of the first
\* failing step in the order INVALID_DATE_TIME (date, then time),
\* BOTH_STOPS_NOT_FOUND, START_STOP_NOT_FOUND, END_STOP_NOT_FOUND,
\* AMBIGUOUS_START_STOP, AMBIGUOUS_END_STOP, SAME_START_AND_END,
\* NO_ITINERARY_FOUND, and success only when no step fails; every
\* non-success result has status 'error' and one of these eight error types.
C16_FirstFailingStepReturned ==
    lastCall.op = "findItineraryByName" =>
        /\ lastCall.result.status \in {"success", "error"}
        /\ lastCall.result.status = "error" =>
               lastCall.result.errorType \in ErrorTypes
        /\ ErrorTypeOf(lastCall.result) = FirstFailingStep
        /\ ~DateFormatOk(lastCall.date) =>
               lastCall.result.message = <<"Invalid date format">>

\* the stops named by the legs of a success result
LegEnds(result) ==
    UNION {UNION {{result.journeys[j].legs[k].fromStop,
                   result.journeys[j].legs[k].toStop} :
                      k \in DOMAIN result.journeys[j].legs} :
              j \in DOMAIN result.journeys}

\* C17 as stated: in every success result of findItineraryByName each leg
\* carries a non-empty fromStop.stop_name and toStop.stop_name taken from the
\* backend's stop record, and a raw stop ID is never placed in a name field,
\* also when the name lookup returns no record for a referenced stop.
C17_LegsCarryStopNames ==
    (lastCall.op = "findItineraryByName" /\ lastCall.result.status = "success") =>
        \A end \in LegEnds(lastCall.result) :
            /\ end.stop_name # <<>>
            /\ end.stop_name # IdText(end.stop_id)
            /\ end.stop_id \in StopIds
            /\ end.stop_name = StopName(end.stop_id)

\* the call selected two different stops and asked the itinerary engine
EngineAsked ==
    /\ StopsSelected
    /\ StartCandidates[1].stop_id # EndCandidates[1].stop_id

\* C18: when the itinerary engine returns no journeys for the two selected
\* stops, findItineraryByName returns NO_ITINERARY_FOUND with the names of
\* both selected stops, the date and a non-empty list of remediation hints;
\* a success result never has an empty list of journeys.
C18_NoItineraryReported ==
    /\ (EngineAsked /\ Len(EngineJourneys) = 0) =>
           /\ ErrorTypeOf(lastCall.result) = "NO_ITINERARY_FOUND"
           /\ lastCall.result.startStop.stop_name = StartCandidates[1].stop_name
           /\ lastCall.result.endStop.stop_name = EndCandidates[1].stop_name
           /\ lastCall.result.date = lastCall.date
           /\ Len(lastCall.result.possibleReasons) > 0
    /\ (lastCall.op = "findItineraryByName" /\ lastCall.result.status = "success") =>
           Len(lastCall.result.journeys) > 0

C18_Witness ==
    /\ EngineAsked
    /\ Called("findScheduledTrips")
    /\ Len(EngineJourneys) = 0
    /\ lastCall.result.errorType = "NO_ITINERARY_FOUND"

\* the numbers of a sequence never decrease
NonDecreasing(numbers) ==
    \A i \in 1..(Len(numbers) - 1) : numbers[i] <= numbers[i + 1]

\* the journeys the routing library yields for the feed, all paths together
JourneysYielded ==
    Concat([p \in DOMAIN feed.paths |->
               PathJourneys(feed.paths[p], feed.legCount, feed.strayStop)])

\* C19: the journeys returned by findItinerary and by findItineraryByName
\* are in non-decreasing order of departure time and are at most
\* journeysCount (2 by default for findItinerary, 3 for findItineraryByName),
\* whatever the routing library yields; journeysCount is a count, 0 or more.
C19_JourneysSortedAndLimited ==
    /\ lastCall.op = "findItinerary" =>
           LET journeys == lastCall.result.journeys
           IN /\ NonDecreasing([j \in DOMAIN journeys |-> journeys[j].departureTime])
              /\ Len(journeys) <= Option(lastCall.options, "journeysCount", 2)
    /\ (lastCall.op = "findItineraryByName" /\ lastCall.result.status = "success") =>
           LET journeys == lastCall.result.journeys
           IN /\ NonDecreasing([j \in DOMAIN journeys |->
                                   DepartureSeconds(journeys[j].departureTime)])
              /\ Len(journeys) <= Option(lastCall.options, "journeysCount", 3)

C19_Witness ==
    /\ lastCall.op = "findItineraryByName"
    /\ lastCall.options = NoOptions
    /\ lastCall.result.status = "success"
    /\ Len(lastCall.result.journeys) = 3
    /\ Len(JourneysYielded) > 3
    /\ ~NonDecreasing([j \in DOMAIN JourneysYielded |->
                          JourneysYielded[j].departureTime])

\* C20: every journey of a findItineraryByName success result has
\* transfers = max(0, number of legs - 1): legs - 1 when it has a leg, and
\* never a negative number.
C20_TransfersFromLegs ==
    (lastCall.op = "findItineraryByName" /\ lastCall.result.status = "success") =>
        \A j \in DOMAIN lastCall.result.journeys :
            LET journey == lastCall.result.journeys[j]
            IN /\ journey.transfers >= 0
               /\ Len(journey.legs) >= 1 =>
                      journey.transfers = Len(journey.legs) - 1
               /\ Len(journey.legs) = 0 => journey.transfers = 0

C20_Witness ==
    /\ lastCall.op = "findItineraryByName"
    /\ lastCall.result.status = "success"
    /\ \E j \in DOMAIN lastCall.result.journeys :
           /\ Len(lastCall.result.journeys[j].legs) = 0
           /\ lastCall.result.journeys[j].transfers = 0
\* C21: when the routing library reports no path for the pair of stops,
\* findItinerary returns {journeys: [], paths: []}: it does not throw and it
\* makes no call of findScheduledTrips.
C21_NoPathsNoJourneys ==
    (lastCall.op = "findItinerary" /\ Len(feed.paths) = 0) =>
        /\ lastCall.result = [journeys |-> <<>>, paths |-> <<>>]
        /\ \A k \in DOMAIN lastCall.calls :
               lastCall.calls[k].fn # "findScheduledTrips"

C21_Witness ==
    /\ lastCall.op = "findItinerary"
    /\ Len(feed.paths) = 0
    /\ \E k \in DOMAIN lastCall.calls : lastCall.calls[k].fn = "findAllPaths"

\* C22: for every stop returned by searchStopsByWords, matchScore is the
\* number of distinct query words that matched the stop, the size of
\* matchedWords, also when a word occurs more than once in the query.
C22_ScoreCountsDistinctWords ==
    lastCall.op = "searchStopsByWords" =>
        \A k \in DOMAIN lastCall.result :
            /\ lastCall.result[k].matchScore = Len(lastCall.result[k].matchedWords)
            /\ lastCall.result[k].matchScore =
                   Cardinality({word \in {QueryWords(lastCall.query)[i] :
                                       i \in DOMAIN QueryWords(lastCall.query)} :
                       \E i \in DOMAIN getStopsByName(feed, word) :
                           getStopsByName(feed, word)[i].stop_id =
                               lastCall.result[k].stop_id})

\* the stops the backend returned for at least one word of the last query
MatchedStops ==
    LET words == QueryWords(lastCall.query)
    IN {id \in StopIds :
           \E i \in DOMAIN words :
               \E k \in DOMAIN getStopsByName(feed, words[i]) :
                   getStopsByName(feed, words[i])[k].stop_id = id}

\* the score the search gives a matched stop of the last query
ScoreOf(id) ==
    LET words == QueryWords(lastCall.query)
    IN StopWithScore(words,
           [i \in DOMAIN words |-> getStopsByName(feed, words[i])],
           Stop(id)).matchScore

\* a stop with that score and name is not placed after one with the other
InOrder(scoreA, nameA, scoreB, nameB) ==
    \/ scoreA > scoreB
    \/ scoreA = scoreB /\ localeCompare(nameA, nameB) <= 0

\* C23: searchStopsByWords returns each matching stop at most once, ordered
\* by matchScore descending and by stop_name ascending among equal scores,
\* and returns the first limit entries of that ordering, no more.
C23_OrderedAndLimited ==
    lastCall.op = "searchStopsByWords" =>
        LET result == lastCall.result
            returned == {result[k].stop_id : k \in DOMAIN result}
        IN /\ \A i, j \in DOMAIN result :
                  i # j => result[i].stop_id # result[j].stop_id
           /\ returned \subseteq MatchedStops
           /\ Len(result) = IF Cardinality(MatchedStops) < lastCall.limit
                            THEN Cardinality(MatchedStops) ELSE lastCall.limit
           /\ \A i, j \in DOMAIN result :
                  i < j => InOrder(result[i].matchScore, result[i].stop_name,
                                   result[j].matchScore, result[j].stop_name)
           /\ \A k \in DOMAIN result : \A id \in MatchedStops \ returned :
                  InOrder(result[k].matchScore, result[k].stop_name,
                          ScoreOf(id), StopName(id))

C23_Witness ==
    /\ lastCall.op = "searchStopsByWords"
    /\ Len(lastCall.result) = 2
    /\ Cardinality(MatchedStops) > 2
    /\ lastCall.result[1].matchScore > lastCall.result[2].matchScore
    /\ localeCompare(lastCall.result[1].stop_name, lastCall.result[2].stop_name) > 0

\* the two words of the queries compared: the one-word query is made of the
\* first of them
TwoQueriesMade ==
    /\ lastCall.op = "searchStopsByWords"
    /\ "previous" \in DOMAIN lastCall
    /\ Len(QueryWords(lastCall.previous.query)) = 1
    /\ Len(QueryWords(lastCall.query)) = 2
    /\ QueryWords(lastCall.query)[1] = QueryWords(lastCall.previous.query)[1]

\* word is a part of name
IsSubstring(word, name) ==
    \E from \in 1..(Len(name) - Len(word) + 1) :
        SubSeq(name, from, from + Len(word) - 1) = word

\* C24: a stop returned by a one-word query {a} and by a two-word query
\* {a, b} on the same data has, in the two-word query, a matchScore that is
\* not lower than in the one-word query.
C24_ScoreMonotonic ==
    TwoQueriesMade =>
        \A i \in DOMAIN lastCall.previous.result, j \in DOMAIN lastCall.result :
            lastCall.previous.result[i].stop_id = lastCall.result[j].stop_id =>
                lastCall.result[j].matchScore >=
                    lastCall.previous.result[i].matchScore

C24_Witness ==
    /\ TwoQueriesMade
    /\ \E i \in DOMAIN lastCall.previous.result, j \in DOMAIN lastCall.result :
           /\ lastCall.previous.result[i].stop_id = lastCall.result[j].stop_id
           /\ \A k \in DOMAIN QueryWords(lastCall.query) :
                  IsSubstring(QueryWords(lastCall.query)[k],
                              lastCall.result[j].stop_name)
           /\ lastCall.result[j].matchScore > lastCall.previous.result[i].matchScore

\* the rows the last getTrips or getStopTimes call returned
RowsReturned == lastCall.result.value.json

\* C25: when getTrips or getStopTimes is called through executeTool with a
\* date and without serviceIds, every returned trip or stop time belongs to a
\* service active on that date; when no service is active the result is empty.
C25_DateRestrictsToActiveServices ==
    (/\ lastCall.op = "executeToolOnFeed"
     /\ "date" \in DOMAIN lastCall.input
     /\ "serviceIds" \notin DOMAIN lastCall.input) =>
        \A k \in DOMAIN RowsReturned :
            \E i \in DOMAIN getActiveServiceIds(feed, lastCall.input.date) :
                getActiveServiceIds(feed, lastCall.input.date)[i] =
                    RowsReturned[k].service_id

\* the day of the week of the dates asked
WeekdayOf(date) ==
    CASE date = Wednesday -> "wednesday"
      [] date = Saturday -> "saturday"
      [] date = NextYear -> "wednesday"

\* the number a date stands for
DateNumber(date) == parseInt(date)

\* the services the trips of the feed refer to
ServicesOfTrips ==
    {feed.timetable.trips[k].service_id : k \in DOMAIN feed.timetable.trips} \ {""}

\* the active-service-set of a date: base calendar, plus the dates added,
\* minus the dates removed
ActiveServiceSet(date) ==
    {s \in ServicesOfTrips :
        /\ [service_id |-> s, date |-> date, exception_type |-> 2]
               \notin feed.timetable.calendarDates
        /\ \/ [service_id |-> s, date |-> date, exception_type |-> 1]
                  \in feed.timetable.calendarDates
           \/ \E row \in feed.timetable.calendar :
                  /\ row.service_id = s
                  /\ DateNumber(row.start_date) <= DateNumber(date)
                  /\ DateNumber(date) <= DateNumber(row.end_date)
                  /\ WeekdayOf(date) \in row.days}

\* C26: getActiveServiceIds(date) returns exactly the services referred to
\* by trips that are not removed on the date and that are added on the date
\* or run on it by their base calendar.
C26_ActiveServicesExact ==
    lastCall.op = "getActiveServiceIds" =>
        {lastCall.result[k] : k \in DOMAIN lastCall.result} =
            ActiveServiceSet(lastCall.date)

\* the entries of one type an exchange reported, in order
EntriesOf(e, type) == SelectSeq(ex[e].logged, LAMBDA entry : entry.type = type)

\* the tool-use blocks of the last model response reported before entry i
ReportedToolUses(e, i) ==
    LET Responses == {j \in 1..(i - 1) : ex[e].logged[j].type = "assistant_response"}
        last == CHOOSE j \in Responses : \A h \in Responses : h <= j
    IN extractToolUseFromContent(ex[e].logged[last].data.content)

\* entry i + 1 of the log of an exchange may follow entry i
FollowsInOrder(e, i) ==
    LET entry == ex[e].logged[i]
        next == ex[e].logged[i + 1]
    IN CASE entry.type = "user_input" -> next.type = "system"
         [] entry.type = "system" -> next.type \in {"assistant_response", "error"}
         [] entry.type = "assistant_response" ->
                LET toolUses == extractToolUseFromContent(entry.data.content)
                IN IF Len(toolUses) = 0
                   THEN next.type = "error"
                   ELSE next.type = "tool_call" /\ next.data.id = toolUses[1].id
         [] entry.type = "tool_call" ->
                /\ next.type = "tool_result"
                /\ next.data.id = entry.data.id
         [] entry.type = "tool_result" ->
                LET toolUses == ReportedToolUses(e, i)
                    k == CHOOSE h \in DOMAIN toolUses : toolUses[h].id = entry.data.id
                IN IF k < Len(toolUses)
                   THEN next.type = "tool_call" /\ next.data.id = toolUses[k + 1].id
                   ELSE next.type \in {"system", "error"}
         [] entry.type = "error" -> FALSE

\* the tool_result blocks an exchange has built so far, in order
RECURSIVE BlocksOfTurns(_)
BlocksOfTurns(turns) ==
    IF turns = <<>> THEN <<>>
    ELSE (IF Head(turns).role = "user" /\ Head(turns).content.kind = "blocks"
          THEN Head(turns).content.blocks ELSE <<>>) \o BlocksOfTurns(Tail(turns))

ResultsBuilt(e) ==
    BlocksOfTurns(ex[e].appended) \o
    (IF ex[e].pc = "awaitTool" THEN ex[e].toolResults ELSE <<>>)

\* C27: every model call, tool dispatch and tool result of an exchange is
\* reported to the debug log in execution order: a 'system' entry before and
\* an 'assistant_response' entry after each model call, and for each tool-use
\* block a 'tool_call' entry followed by a 'tool_result' entry with the same
\* id; the reporting never makes the exchange fail, whatever a tool returns.
C27_ReportedInOrder ==
    \A e \in Exchanges :
        LET log == ex[e].logged
            responses == EntriesOf(e, "assistant_response")
            results == EntriesOf(e, "tool_result")
            assistantTurns == SelectSeq(ex[e].appended, IsAssistantTurn)
        IN /\ \A i \in 1..(Len(log) - 1) : FollowsInOrder(e, i)
           /\ Len(EntriesOf(e, "system")) = ex[e].iterations
           /\ Len(responses) = Len(assistantTurns)
           /\ \A i \in DOMAIN responses :
                  responses[i].data.content = assistantTurns[i].content.blocks
           /\ Len(results) = Len(ResultsBuilt(e))
           /\ \A i \in DOMAIN results :
                  /\ results[i].data.id = ResultsBuilt(e)[i].tool_use_id
                  /\ JsonText(results[i].data.result) = ResultsBuilt(e)[i].content
           /\ Len(EntriesOf(e, "tool_call")) =
                  Len(results) + (IF ex[e].pc = "awaitTool" THEN 1 ELSE 0)
           /\ ex[e].error # "Unexpected token"

\* an exchange ended well after two tool results were reported, one of them
\* an error payload
C27_Witness ==
    \E e \in Exchanges :
        /\ ex[e].pc = "done"
        /\ ex[e].error = "none"
        /\ Len(EntriesOf(e, "tool_result")) >= 2
        /\ \E i \in DOMAIN EntriesOf(e, "tool_result") :
               "error" \in DOMAIN EntriesOf(e, "tool_result")[i].data.result
        /\ ex[e].logged[Len(ex[e].logged)].type = "assistant_response"

\* the usages of the responses received since the last reset, of all exchanges
RECURSIVE UsagesSinceReset(_)
UsagesSinceReset(e) ==
    IF e = 0 THEN <<>>
    ELSE UsagesSinceReset(e - 1) \o
         SelectSeq(ex[e].usages, LAMBDA received : received.resets = resets)

RECURSIVE SumOf(_, _)
SumOf(received, field) ==
    IF received = <<>> THEN 0
    ELSE Head(received).usage[field] + SumOf(Tail(received), field)

\* C28: the token totals are the sums of the input and of the output token
\* counts of the model responses received since the last resetConversation,
\* they do not decrease between resets, and the loop goes on, stops or fails
\* by the responses and the round count alone.
C28_TokenTotals ==
    /\ [](/\ tokenStats.totalInputTokens =
                 SumOf(UsagesSinceReset(MaxBriefExchanges), "inputTokens")
          /\ tokenStats.totalOutputTokens =
                 SumOf(UsagesSinceReset(MaxBriefExchanges), "outputTokens")
          /\ \A e \in Exchanges :
                 /\ ex[e].iterations <= maxIterations
                 /\ ex[e].pc = "done" =>
                        \/ ex[e].error = "none" /\ ex[e].finalSeen
                        \/ ex[e].error \in OutsideFailures
                        \/ /\ ex[e].error = TooManyIterations
                           /\ ex[e].iterations = maxIterations)
    /\ [][resets' = resets =>
              /\ tokenStats'.totalInputTokens >= tokenStats.totalInputTokens
              /\ tokenStats'.totalOutputTokens >= tokenStats.totalOutputTokens]_vars

\* after a reset, totals that count a response received since the reset by
\* an exchange that had received another one before it
C28_Witness ==
    /\ resets > 0
    /\ tokenStats.totalOutputTokens > 0
    /\ \E e \in Exchanges :
           /\ \E i \in DOMAIN ex[e].usages : ex[e].usages[i].resets < resets
           /\ \E i \in DOMAIN ex[e].usages : ex[e].usages[i].resets = resets

\* C29: times are seconds since midnight and are not wrapped at 24 hours:
\* for every non-negative integer s, 86400 and more included,
\* secondsToTimeString(s) renders the hours s div 3600, and the conversion of
\* findItinerary applied to that text gives back s.
C29_TimesNotWrapped ==
    lastCall.op = "secondsToTimeString" =>
        /\ NumberOf(SplitOnColon(lastCall.result)[1]) = lastCall.seconds \div 3600
        /\ Len(SplitOnColon(lastCall.result)) = 3
        /\ \A k \in 1..3 : Len(SplitOnColon(lastCall.result)[k]) >= 2
        /\ DepartureSeconds(lastCall.result) = lastCall.seconds

C29_Witness ==
    /\ lastCall.op = "secondsToTimeString"
    /\ lastCall.seconds = 90061
    /\ lastCall.result = <<"2", "5", ":", "0", "1", ":", "0", "1">>

\* C30: after an exchange failed and the state was set to 'error', the timer
\* armed by the catch block sets the state back to 'idle' when it fires, if
\* nothing else happened in between, whatever the state was when the exchange
\* was started.
C30_ErrorRecoversToIdle ==
    [][\A e \in Exchanges :
          (/\ OnlyExchange(e)
           /\ ex[e].pc = "done"
           /\ state = "error"
           /\ timers[e] # "none"
           /\ timers'[e] = "none") => state' = "idle"]_vars

\* C31: the auto-recover timer armed by a failed exchange leaves the state
\* alone when a later exchange, started after the failure, is being heard,
\* processed or spoken at the time the timer fires.
C31_TimerLeavesLaterExchange ==
    [][\A e \in Exchanges :
          (/\ timers[e] # "none"
           /\ timers'[e] = "none"
           /\ state \in {"listening", "processing", "speaking"}
           /\ \E f \in Exchanges :
                  /\ f > e
                  /\ InFlight(f)
                  /\ ex[f].capturedState = "error"
                  /\ \A g \in Exchanges \ {f} : ~InFlight(g))
          => state' = state]_vars

\* the ids of the tool_result blocks of a turn
ResultIds(turn) ==
    IF turn.content.kind # "blocks" THEN {}
    ELSE {turn.content.blocks[k].tool_use_id :
              k \in {j \in 1..Len(turn.content.blocks) :
                         turn.content.blocks[j].type = "tool_result"}}

\* the ids of the tool_use blocks of a turn of the assistant
UseIds(turn) ==
    IF ~IsAssistantTurn(turn) THEN {}
    ELSE {ToolUseIds(turn)[k] : k \in 1..Len(ToolUseIds(turn))}

\* every tool_result block of the list answers a tool_use block of the turn
\* just before it
ResultsFollowUses(turns) ==
    \A i \in 1..Len(turns) :
        ResultIds(turns[i]) # {} =>
            /\ i > 1
            /\ ResultIds(turns[i]) \subseteq UseIds(turns[i - 1])

\* C32: in every message list sent to the model service each tool_result
\* block carries the id of a tool_use block of the assistant turn just before
\* it, whatever starts, stops, resets and failures came before.
C32_ResultsHaveTheirToolUse ==
    \A e \in Exchanges :
        ex[e].pc = "awaitModel" => ResultsFollowUses(ex[e].sent)

\* the first turn is the user's and no two turns in a row have the same role
RolesAlternate(turns) ==
    /\ turns # <<>> => turns[1].role = "user"
    /\ \A i \in 1..(Len(turns) - 1) : turns[i].role # turns[i + 1].role

\* C33: every message list sent to the model service starts with a user turn
\* and alternates strictly between user and assistant turns, also in the
\* exchange that follows a failed one.
C33_RolesAlternate ==
    \A e \in Exchanges :
        ex[e].pc = "awaitModel" => RolesAlternate(ex[e].sent)

\* exchange e issues a model call in this step
IssuesModelCall(e) ==
    /\ ex'[e].pc = "awaitModel"
    /\ ex[e].pc # "awaitModel" \/ ex'[e].iterations # ex[e].iterations

\* C34: at every model call of an exchange the message list sent is the
\* conversation history the chat store holds at that instant.
C34_SentListIsStoreHistory ==
    [][\A e \in Exchanges :
          IssuesModelCall(e) => ex'[e].sent = messages']_vars

\* C35: startVoiceChat or processTextInput invoked with an empty API key or a
\* null backend handle sets the state to 'error' with an error message,
\* issues no model call and no tool call, and leaves the history, the token
\* totals and the processing flag as they were.
C35_FailedPreconditionChangesNothing ==
    (/\ lastCall.op \in {"startVoiceChat", "processTextInput"}
     /\ apiKey = "" \/ gtfsApi = NullApi)
    => /\ state = "error"
       /\ errorMessage # "none"
       /\ messages = lastCall.messages
       /\ tokenStats = lastCall.tokenStats
       /\ isProcessing = lastCall.isProcessing
       /\ modelCalls = 0
       /\ \A e \in Exchanges : ex[e].pc = "unused" /\ ex[e].pending = {}

C35_Witness ==
    /\ lastCall.op = "startVoiceChat"
    /\ apiKey = "sk-key"
    /\ gtfsApi = NullApi
    /\ state = "error"
    /\ errorMessage = "GTFS data is not loaded yet"
    /\ messages # <<>>
    /\ tokenStats # NoTokens
    /\ isProcessing

\* the workers created and not terminated
LiveWorkers ==
    {w \in WorkerIds : workers[w].status # "none" /\ ~workers[w].terminated}

\* the call of initialize() made to worker w settles in this step
InitializeSettles(w) ==
    workers[w].status = "running" /\ workers'[w].status # "running"

\* C36: loadingState is 'ready' only if the worker held in workerRef has
\* completed initialize(); an initialization superseded by a later call of
\* initializeWorker never changes loadingState or error, the only outcomes
\* acted upon being those of the worker held in workerRef; and at most one
\* worker that is not terminated exists at any time.
C36_LoadingStateFollowsCurrentWorker ==
    /\ [](/\ loadingState = "ready" =>
                 /\ workerRef # NoWorker
                 /\ workers[workerRef].status = "initialized"
          /\ Cardinality(LiveWorkers) <= 1)
    /\ [][\A w \in WorkerIds :
              InitializeSettles(w) => w = workerRef /\ ~workers[w].terminated]_vars

\* a worker was terminated while its initialization was in flight, and the
\* worker created after it has loaded the feed
C36_Witness ==
    /\ loadingState = "ready"
    /\ workerRef # NoWorker
    /\ workers[workerRef].status = "initialized"
    /\ \E w \in WorkerIds \ {workerRef} :
           /\ workers[w].status = "running"
           /\ workers[w].terminated

\* the bound findAllPaths was given on the number of transfers
TransferBoundGiven ==
    {lastCall.calls[i].args[4] :
         i \in {j \in DOMAIN lastCall.calls : lastCall.calls[j].fn = "findAllPaths"}}

Smaller(a, b) == IF a <= b THEN a ELSE b

\* C37: the findItinerary tool called without journeysCount returns as many
\* of the journeys the routing library yields as the default stated in the
\* tool's schema allows, and called without maxTransfers it gives the routing
\* library the default stated in the schema as the bound on transfers.
C37_SchemaDefaultsApplied ==
    lastCall.op = "findItineraryTool" =>
        /\ "journeysCount" \notin DOMAIN lastCall.input =>
               Len(lastCall.result.value.json.journeys) =
                   Smaller(SchemaDefaults.journeysCount, Len(JourneysYielded))
        /\ "maxTransfers" \notin DOMAIN lastCall.input =>
               TransferBoundGiven = {SchemaDefaults.maxTransfers}

====
